---- MODULE Spec2Model ----
(***************************************************************************)
(* CrossOver frontend: the overlay surfaces (src-frontend/main.ts), the    *)
(* settings surface (src-frontend/settings.ts), and the preference store   *)
(* and notification bus they talk to over Tauri IPC.                       *)
(*                                                                         *)
(* Representation of values:                                               *)
(*   - an opacity o in [0,1] is the integer 1000*o (per mille);            *)
(*   - a color string is the tuple of its characters;                      *)
(*   - an image src is the pair <<directory, filename>>;                   *)
(*   - a label such as "20px" is the pair <<20, "px">>;                    *)
(*   - an optional value is <<>> (absent) or <<v>>.                        *)
(***************************************************************************)
EXTENDS Bags, FiniteSets, Integers, Sequences, TLC

\* ------------------------------------------------------------------------
\* Bounds of the model
\* ------------------------------------------------------------------------
\* store mutations made from outside the surfaces (hotkeys, tray, other code)
MaxExternal == 2
\* user events of one run (gestures, clicks, pointer events)
MaxEvents == 3

\* ------------------------------------------------------------------------
\* Value domains
\* ------------------------------------------------------------------------
Overlays == {"primary", "shadow"}
Surfaces == Overlays \cup {"settings"}

Crosshairs == {"dot.png", "missing.png"}
\* files the webview can load from /crosshairs/
Loadable == {"dot.png", "crosshair-default.png"}
Catalog == <<"dot.png", "missing.png">>
Sizes == {20, 40}
Opacities == {800, 500}
ColorMagenta == <<"#", "F", "F", "0", "0", "F", "F">>
ColorNavy == <<"#", "1", "a", "2", "b", "3", "c">>
Colors == {ColorMagenta, ColorNavy}
Reticles == {"none", "circle"}

Topics == {"lock-changed", "crosshair-changed", "opacity-changed",
           "size-changed", "color-changed", "reticle-changed",
           "visibility-changed", "sync-settings"}

None == <<>>
Some(v) == <<v>>

\* the aggregate the store loads when no preferences were persisted
Defaults == [crosshair |-> "dot.png", size |-> 20, opacity |-> 800,
             color |-> ColorMagenta, locked |-> FALSE, visible |-> TRUE,
             reticle |-> "none", follow_mouse |-> FALSE,
             hide_on_ads |-> FALSE]

Aggregates == [crosshair : Crosshairs, size : Sizes, opacity : Opacities,
               color : Colors, locked : BOOLEAN, visible : BOOLEAN,
               reticle : Reticles, follow_mouse : BOOLEAN,
               hide_on_ads : BOOLEAN]

VARIABLES
    panelBound,  \* do sizeSlider, opacitySlider, colorPicker, ... resolve in main.ts
    store,       \* the store's aggregate
    saved,       \* the aggregate as last persisted
    inbox,       \* inbox[s][topic]: notifications fanned out to s, not yet handled
    recv,        \* recv[s][topic]: payload of the last notification s received
    calls,       \* calls[cmd]: bag of requests in flight and of responses not yet consumed
    sent,        \* sent[s][cmd]: number of requests cmd surface s has issued
    ov,          \* ov[s]: state of overlay surface s (main.ts)
    st,          \* state of the settings surface (settings.ts)
    open,        \* the surfaces that exist
    catalog,     \* the store's crosshair catalog
    winPos,      \* winPos[s]: outer position of the window of surface s
    ext,         \* number of external store mutations so far
    events       \* number of user events so far

vars == <<panelBound, store, saved, inbox, recv, calls, sent, ov, st, open,
          catalog, winPos, ext, events>>

\* ------------------------------------------------------------------------
\* main.ts: state and UI updates of an overlay surface
\* ------------------------------------------------------------------------
OverlayInit ==
    [crosshairImgSrc |-> <<"", "">>, sizeCss |-> 0, opacityCss |-> 1000,
     colorCss |-> <<>>, reticleColor |-> <<>>,
     isLocked |-> FALSE, isDragging |-> FALSE, currentReticle |-> "none",
     start |-> <<0, 0>>, window |-> <<0, 0>>, cursor |-> "",
     dragOrigin |-> <<0, 0>>,
     appLocked |-> FALSE, dragHandleHidden |-> FALSE,
     lockIndicatorHidden |-> TRUE, settingsButtonHidden |-> FALSE,
     animate |-> FALSE, animTimers |-> 0, appHidden |-> FALSE,
     chooserModalHidden |-> TRUE, chooserGrid |-> <<>>,
     settingsPanelHidden |-> TRUE, contextMenus |-> 0,
     crosshairGrid |-> <<>>,
     sizeSlider |-> 0, sizeValue |-> <<0, "px">>,
     opacitySlider |-> 0, opacityValue |-> <<0, "%">>,
     colorPicker |-> <<>>, colorInput |-> <<>>,
     toasts |-> <<>>, errors |-> 0, uncaught |-> 0,
     hydration |-> "none",
     got |-> [crosshair |-> None, size |-> None, opacity |-> None,
              color |-> None, locked |-> None],
     lockSeen |-> <<>>, chooserSaw |-> <<>>]

\* Math.round(opacity * 100)
RoundPercent(opacity) == (opacity + 5) \div 10

updateCrosshairImage(o, filename) ==
    [o EXCEPT !.crosshairImgSrc = <<"/crosshairs/", filename>>]

\* an onerror handler that takes the image away
crosshairImgOnErrorBlank(o) == [o EXCEPT !.crosshairImgSrc = <<"", "">>]

\* crosshairImg.onerror
crosshairImgOnError(o) ==
    [o EXCEPT !.crosshairImgSrc = <<"/crosshairs/", "crosshair-default.png">>]

\* sizeSlider and sizeValue are not declared in main.ts: where they do not
\* resolve, the function throws a ReferenceError after the style updates
updateSize(o, size) ==
    IF panelBound
    THEN [o EXCEPT !.sizeCss = size, !.sizeSlider = size,
                   !.sizeValue = <<size, "px">>]
    ELSE [o EXCEPT !.sizeCss = size]

updateOpacity(o, opacity) ==
    IF panelBound
    THEN [o EXCEPT !.opacityCss = opacity,
                   !.opacitySlider = RoundPercent(opacity),
                   !.opacityValue = <<RoundPercent(opacity), "%">>]
    ELSE [o EXCEPT !.opacityCss = opacity]

updateColor(o, color) ==
    IF panelBound
    THEN [o EXCEPT !.colorCss = color, !.reticleColor = color,
                   !.colorPicker = color, !.colorInput = color]
    ELSE [o EXCEPT !.colorCss = color, !.reticleColor = color]

\* an update of the lock state that starts the animation without the timer
updateLockStateNoTimer(o, locked) ==
    [o EXCEPT !.isLocked = locked, !.appLocked = locked,
              !.dragHandleHidden = locked, !.lockIndicatorHidden = ~locked,
              !.settingsButtonHidden = locked,
              !.animate = IF locked THEN TRUE ELSE @,
              !.lockSeen = IF locked = o.isLocked THEN @
                           ELSE Append(@, IF locked THEN "lock" ELSE "unlock")]

\* an update of the lock state that leaves the settings button in place
updateLockStateKeepingButton(o, locked) ==
    [o EXCEPT !.isLocked = locked, !.appLocked = locked,
              !.dragHandleHidden = locked, !.lockIndicatorHidden = ~locked,
              !.animate = IF locked THEN TRUE ELSE @,
              !.animTimers = IF locked THEN @ + 1 ELSE @,
              !.lockSeen = IF locked = o.isLocked THEN @
                           ELSE Append(@, IF locked THEN "lock" ELSE "unlock")]

updateLockState(o, locked) ==
    [o EXCEPT !.isLocked = locked, !.appLocked = locked,
              !.dragHandleHidden = locked, !.lockIndicatorHidden = ~locked,
              !.settingsButtonHidden = locked,
              !.animate = IF locked THEN TRUE ELSE @,
              !.animTimers = IF locked THEN @ + 1 ELSE @,
              \* history: the lock transitions the surface has gone through
              !.lockSeen = IF locked = o.isLocked THEN @
                           ELSE Append(@, IF locked THEN "lock" ELSE "unlock")]

\* an exception or rejection that escapes a handler (errors counts the
\* console.error calls of the code, uncaught what escapes it)
Uncaught(o) == [o EXCEPT !.uncaught = @ + 1]

\* ------------------------------------------------------------------------
\* settings.ts: state and UI updates of the settings surface
\* ------------------------------------------------------------------------
SettingsInit ==
    [sizeSlider |-> 0, sizeValue |-> <<0, "px">>,
     opacitySlider |-> 0, opacityValue |-> <<0, "%">>,
     colorPicker |-> <<>>, colorInput |-> <<>>,
     reticleActive |-> "none",
     followChecked |-> FALSE, hideAdsChecked |-> FALSE,
     autostartChecked |-> FALSE,
     grid |-> <<>>, toasts |-> <<>>, errors |-> 0, uncaught |-> 0,
     \* where init() stands: "none", "reading", "grid", "done", "failed"
     hydration |-> "none",
     \* history: what the last batch of reads returned, the batches applied
     got |-> <<>>, loads |-> 0,
     \* history: the gesture in progress, the last gesture that ended, the
     \* submissions of the color text input, the kind of the last user event
     gesture |-> <<>>, closed |-> <<>>, subs |-> <<>>, lastEvent |-> "none"]

updateSizeUI(s, size) ==
    [s EXCEPT !.sizeSlider = size, !.sizeValue = <<size, "px">>]

updateOpacityUI(s, opacity) ==
    [s EXCEPT !.opacitySlider = RoundPercent(opacity),
              !.opacityValue = <<RoundPercent(opacity), "%">>]

updateColorUI(s, color) ==
    [s EXCEPT !.colorPicker = color, !.colorInput = color]

updateReticleUI(s, type) == [s EXCEPT !.reticleActive = type]

\* toasts holds the type of every toast raised so far
showToast(s, type) == [s EXCEPT !.toasts = Append(@, type)]

\* ------------------------------------------------------------------------
\* Requests in flight (Tauri invoke) and the request counters
\* ------------------------------------------------------------------------
Cmds == {"get_crosshair", "get_size", "get_opacity", "get_color", "is_locked",
         "get_reticle", "get_follow_mouse", "get_hide_on_ads",
         "get_crosshair_list", "set_crosshair", "set_size", "set_opacity",
         "set_color", "set_reticle", "set_follow_mouse", "set_hide_on_ads",
         "toggle_lock", "save_preferences", "reset_preferences",
         "center_window", "move_to_next_display", "outer_position",
         "set_position", "autostart_is_enabled", "create_shadow_window",
         "show", "set_focus", "create_webview_window", "import",
         "open_dialog", "import_crosshair"}

\* a request of surface `from` whose result is awaited by continuation k
\* (ctx: what the continuation has in scope; then: who awaits the continuation)
\* (mark: for an open-chooser request handled while locked, the number of
\* lock transitions the surface had seen when the request was handled)
Call(from, k, val, ctx, then) ==
    [from |-> from, k |-> k, phase |-> "sent", val |-> val, ret |-> None,
     ctx |-> ctx, then |-> then, mark |-> None]

Marked(r, mark) == [r EXCEPT !.mark = mark]

Issue(c, cmd, r) == [c EXCEPT ![cmd] = @ (+) SetToBag({r})]
Take(c, cmd, r) == [c EXCEPT ![cmd] = @ (-) SetToBag({r})]
InFlight(cmd) == BagToSet(calls[cmd])
Count(sn, from, cmd) == [sn EXCEPT ![from][cmd] = @ + 1]

\* ------------------------------------------------------------------------
\* Notification bus
\* ------------------------------------------------------------------------
NoMail == [t \in Topics |-> <<>>]

\* fan a notification out to every open surface
Emit(inb, topic, payload) ==
    [s \in Surfaces |->
        IF s \in open THEN [inb[s] EXCEPT ![topic] = Append(@, payload)]
        ELSE inb[s]]

Quiet(s) == \A t \in Topics : inbox[s][t] = <<>>

\* ------------------------------------------------------------------------
\* Initial states
\* ------------------------------------------------------------------------
\* The store holds any aggregate; every surface has just been constructed
\* with its listeners registered and nothing hydrated yet.
InitShared ==
    /\ panelBound \in BOOLEAN
    /\ store \in {a \in Aggregates :
                    /\ a.follow_mouse = FALSE /\ a.hide_on_ads = FALSE
                    /\ a.visible = TRUE /\ a.crosshair = "dot.png"
                    /\ a.size = 20 /\ a.opacity = 800
                    /\ a.color = ColorMagenta}
    /\ saved = store
    /\ inbox = [s \in Surfaces |-> NoMail]
    /\ recv = [s \in Surfaces |-> [t \in Topics |-> None]]
    /\ calls = [c \in Cmds |-> EmptyBag]
    /\ sent = [s \in Surfaces |-> [c \in Cmds |-> 0]]
    /\ ov = [s \in Overlays |-> OverlayInit]
    /\ catalog = Catalog
    /\ winPos = [s \in Surfaces |-> <<0, 0>>]
    /\ ext = 0
    /\ events = 0

InitCommon == InitShared /\ st = SettingsInit

\* ------------------------------------------------------------------------
\* The preference store (src-tauri, outside the frontend sources)
\* ------------------------------------------------------------------------
FieldOf(topic) ==
    CASE topic = "lock-changed" -> "locked"
      [] topic = "crosshair-changed" -> "crosshair"
      [] topic = "opacity-changed" -> "opacity"
      [] topic = "size-changed" -> "size"
      [] topic = "color-changed" -> "color"
      [] topic = "reticle-changed" -> "reticle"
      [] topic = "visibility-changed" -> "visible"

ValuesOf(topic) ==
    CASE topic = "lock-changed" -> {~store.locked}
      [] topic = "crosshair-changed" -> Crosshairs
      [] topic = "opacity-changed" -> Opacities
      [] topic = "size-changed" -> Sizes
      [] topic = "color-changed" -> Colors
      [] topic = "reticle-changed" -> Reticles
      [] topic = "visibility-changed" -> {~store.visible}

FieldTopics == Topics \ {"sync-settings"}

\* the store commits value v of a field and broadcasts the notification
StoreCommit(topic, v) ==
    /\ store' = [store EXCEPT ![FieldOf(topic)] = v]
    /\ inbox' = Emit(inbox, topic, v)

\* a mutation that no surface requested: global hotkey, tray menu
ExternalChange ==
    /\ ext < MaxExternal
    /\ ext' = ext + 1
    /\ \E topic \in FieldTopics : \E v \in ValuesOf(topic) :
           StoreCommit(topic, v)
    /\ UNCHANGED <<panelBound, saved, recv, calls, sent, ov, st, open,
                   catalog, winPos, events>>

\* the store broadcasts its whole aggregate on the bulk topic
ExternalSync ==
    /\ ext < MaxExternal
    /\ ext' = ext + 1
    /\ inbox' = Emit(inbox, "sync-settings", store)
    /\ UNCHANGED <<panelBound, store, saved, recv, calls, sent, ov, st, open,
                   catalog, winPos, events>>

ReadCmds == {"get_crosshair", "get_size", "get_opacity", "get_color",
             "is_locked", "get_reticle", "get_follow_mouse",
             "get_hide_on_ads", "get_crosshair_list", "outer_position",
             "autostart_is_enabled"}

ReadResult(cmd, from) ==
    CASE cmd = "get_crosshair" -> store.crosshair
      [] cmd = "get_size" -> store.size
      [] cmd = "get_opacity" -> store.opacity
      [] cmd = "get_color" -> store.color
      [] cmd = "is_locked" -> store.locked
      [] cmd = "get_reticle" -> store.reticle
      [] cmd = "get_follow_mouse" -> store.follow_mouse
      [] cmd = "get_hide_on_ads" -> store.hide_on_ads
      [] cmd = "get_crosshair_list" -> catalog
      [] cmd = "outer_position" -> winPos[from]
      \* the autostart plugin: start on boot is off
      [] cmd = "autostart_is_enabled" -> FALSE

Answered(r, result) == [r EXCEPT !.phase = "ok", !.ret = Some(result)]
Done(r) == [r EXCEPT !.phase = "ok"]
Rejected(r) == [r EXCEPT !.phase = "err"]
Replace(c, cmd, r, q) == Issue(Take(c, cmd, r), cmd, q)

\* the store answers a read
ServeRead ==
    /\ \E cmd \in ReadCmds : \E r \in InFlight(cmd) :
          /\ r.phase = "sent"
          /\ calls' = Replace(calls, cmd, r, Answered(r, ReadResult(cmd, r.from)))
    /\ UNCHANGED <<panelBound, store, saved, inbox, recv, sent, ov, st, open,
                   catalog, winPos, ext, events>>

SetTopic(cmd) ==
    CASE cmd = "set_crosshair" -> "crosshair-changed"
      [] cmd = "set_size" -> "size-changed"
      [] cmd = "set_opacity" -> "opacity-changed"
      [] cmd = "set_color" -> "color-changed"
      [] cmd = "set_reticle" -> "reticle-changed"

NotifiedSets == {"set_crosshair", "set_size", "set_opacity", "set_color",
                 "set_reticle"}

\* the store commits a set request and broadcasts the change
ServeSet ==
    /\ \E cmd \in NotifiedSets : \E r \in InFlight(cmd) :
          /\ r.phase = "sent"
          /\ StoreCommit(SetTopic(cmd), r.val[1])
          /\ calls' = Replace(calls, cmd, r, Done(r))
    /\ UNCHANGED <<panelBound, saved, recv, sent, ov, st, open, catalog,
                   winPos, ext, events>>

\* toggle_lock flips the flag, broadcasts it and returns the new value
ServeToggleLock ==
    /\ \E r \in InFlight("toggle_lock") :
          /\ r.phase = "sent"
          /\ StoreCommit("lock-changed", ~store.locked)
          /\ calls' = Replace(calls, "toggle_lock", r,
                              Answered(r, ~store.locked))
    /\ UNCHANGED <<panelBound, saved, recv, sent, ov, st, open, catalog,
                   winPos, ext, events>>

\* save_preferences persists the aggregate as it is when the request is served
ServeSave ==
    /\ \E r \in InFlight("save_preferences") :
          /\ r.phase = "sent"
          /\ saved' = store
          /\ calls' = Replace(calls, "save_preferences", r, Done(r))
    /\ UNCHANGED <<panelBound, store, inbox, recv, sent, ov, st, open,
                   catalog, winPos, ext, events>>

\* the window owner moves the window of the requesting surface
ServeSetPosition ==
    /\ \E r \in InFlight("set_position") :
          /\ r.phase = "sent"
          /\ winPos' = [winPos EXCEPT ![r.from] = r.val[1]]
          /\ calls' = Replace(calls, "set_position", r, Done(r))
    /\ UNCHANGED <<panelBound, store, saved, inbox, recv, sent, ov, st, open,
                   catalog, ext, events>>

\* any request may fail: store unreachable, value rejected
ServeFail ==
    /\ \E cmd \in Cmds : \E r \in InFlight(cmd) :
          /\ r.phase = "sent"
          /\ calls' = Replace(calls, cmd, r, Rejected(r))
    /\ UNCHANGED <<panelBound, store, saved, inbox, recv, sent, ov, st, open,
                   catalog, winPos, ext, events>>

\* ------------------------------------------------------------------------
\* Crosshair grid (loadCrosshairGrid, createCrosshairItem)
\* ------------------------------------------------------------------------
createCrosshairItem(filename, isActive) ==
    [crosshair |-> filename, active |-> isActive]

GridItems(crosshairs, currentCrosshair) ==
    [i \in 1..Len(crosshairs) |->
        createCrosshairItem(crosshairs[i], crosshairs[i] = currentCrosshair)]

\* the settings mini-grid of main.ts takes the first items only
MiniGridSize == 6

FirstItems(items) ==
    SubSeq(items, 1, IF Len(items) < MiniGridSize THEN Len(items)
                     ELSE MiniGridSize)

\* main.ts: the grids are cleared, then filled; crosshairGrid is not
\* declared in main.ts, and where it does not resolve the ReferenceError is
\* caught by the function's try/catch after chooserGrid was cleared
fillGridsOverlay(o, crosshairs, currentCrosshair) ==
    IF panelBound
    THEN [o EXCEPT !.chooserGrid = GridItems(crosshairs, currentCrosshair),
                   !.crosshairGrid =
                       FirstItems(GridItems(crosshairs, currentCrosshair))]
    ELSE [o EXCEPT !.chooserGrid = <<>>, !.errors = @ + 1]

fillGridSettings(s, crosshairs, currentCrosshair) ==
    [s EXCEPT !.grid = GridItems(crosshairs, currentCrosshair)]

\* catch block of loadCrosshairGrid
gridFailedOverlay(o) == [o EXCEPT !.errors = @ + 1]
gridFailedSettings(s) == showToast([s EXCEPT !.errors = @ + 1], "error")

\* what runs in the caller once loadCrosshairGrid() has settled: the
\* open-chooser listener shows the modal (chooserSaw records, for a request
\* handled while locked, the lock transitions seen since it was handled)
afterGridOverlay(o, then, mark) ==
    IF then = "chooser"
    THEN [o EXCEPT !.chooserModalHidden = FALSE,
                   !.chooserSaw =
                       IF mark = None THEN @
                       ELSE Some(SubSeq(o.lockSeen, mark[1] + 1,
                                        Len(o.lockSeen)))]
    ELSE IF then = "hydrate" THEN [o EXCEPT !.hydration = "done"]
    ELSE o

\* settings.ts, what runs in the caller once loadCrosshairGrid() or
\* loadInitialState() has settled: the reset handler raises its toast,
\* init() is through
afterLoadSettings(s, then) ==
    IF then = "reset" THEN showToast(s, "success")
    ELSE IF then = "init" THEN [s EXCEPT !.hydration = "done"]
    ELSE s

\* loadCrosshairGrid: the catalog has arrived, the current crosshair is read
GridListArrives ==
    /\ \E r \in InFlight("get_crosshair_list") :
          /\ r.k = "grid_list"
          /\ \/ /\ r.phase = "ok"
                /\ calls' = Issue(Take(calls, "get_crosshair_list", r),
                                  "get_crosshair",
                                  Marked(Call(r.from, "grid_cur", None,
                                              r.ret[1], r.then), r.mark))
                /\ sent' = Count(sent, r.from, "get_crosshair")
                /\ UNCHANGED <<ov, st>>
             \/ /\ r.phase = "err"
                /\ calls' = Take(calls, "get_crosshair_list", r)
                /\ IF r.from = "settings"
                   THEN /\ st' = afterLoadSettings(gridFailedSettings(st),
                                                   r.then)
                        /\ ov' = ov
                   ELSE /\ ov' = [ov EXCEPT ![r.from] =
                                    afterGridOverlay(gridFailedOverlay(@),
                                                     r.then, r.mark)]
                        /\ st' = st
                /\ sent' = sent
    /\ UNCHANGED <<panelBound, store, saved, inbox, recv, open, catalog,
                   winPos, ext, events>>

\* loadCrosshairGrid: the current crosshair has arrived, the grid is rebuilt
GridCurrentArrives ==
    /\ \E r \in InFlight("get_crosshair") :
          /\ r.k = "grid_cur"
          /\ r.phase \in {"ok", "err"}
          /\ calls' = Take(calls, "get_crosshair", r)
          /\ IF r.from = "settings"
             THEN /\ st' = afterLoadSettings(
                               IF r.phase = "ok"
                               THEN fillGridSettings(st, r.ctx, r.ret[1])
                               ELSE gridFailedSettings(st),
                               r.then)
                  /\ ov' = ov
             ELSE /\ ov' = [ov EXCEPT ![r.from] =
                              afterGridOverlay(
                                  IF r.phase = "ok"
                                  THEN fillGridsOverlay(@, r.ctx, r.ret[1])
                                  ELSE gridFailedOverlay(@),
                                  r.then, r.mark)]
                  /\ st' = st
    /\ UNCHANGED <<panelBound, store, saved, inbox, recv, sent, open, catalog,
                   winPos, ext, events>>

\* ------------------------------------------------------------------------
\* Bus listeners (setupEventListeners)
\* ------------------------------------------------------------------------
\* sync-settings listener of main.ts
applySync(o, prefs) ==
    IF panelBound
    THEN updateLockState(
             updateColor(
                 updateOpacity(
                     updateSize(updateCrosshairImage(o, prefs.crosshair),
                                prefs.size),
                     prefs.opacity),
                 prefs.color),
             prefs.locked)
    ELSE Uncaught(updateSize(updateCrosshairImage(o, prefs.crosshair),
                             prefs.size))

\* a visibility listener that releases the lock of a surface it hides
listenOverlayReleasing(o, topic, payload) ==
    CASE topic = "lock-changed" -> updateLockState(o, payload)
      [] topic = "crosshair-changed" -> updateCrosshairImage(o, payload)
      [] topic = "opacity-changed" ->
            IF panelBound THEN updateOpacity(o, payload)
            ELSE Uncaught(updateOpacity(o, payload))
      [] topic = "size-changed" ->
            IF panelBound THEN updateSize(o, payload)
            ELSE Uncaught(updateSize(o, payload))
      [] topic = "color-changed" ->
            IF panelBound THEN updateColor(o, payload)
            ELSE Uncaught(updateColor(o, payload))
      [] topic = "visibility-changed" ->
            IF payload THEN [o EXCEPT !.appHidden = FALSE]
            ELSE updateLockState([o EXCEPT !.appHidden = TRUE], FALSE)
      [] topic = "sync-settings" -> applySync(o, payload)
      [] OTHER -> o

\* main.ts registers no listener for reticle-changed
listenOverlay(o, topic, payload) ==
    CASE topic = "lock-changed" -> updateLockState(o, payload)
      [] topic = "crosshair-changed" -> updateCrosshairImage(o, payload)
      [] topic = "opacity-changed" ->
            IF panelBound THEN updateOpacity(o, payload)
            ELSE Uncaught(updateOpacity(o, payload))
      [] topic = "size-changed" ->
            IF panelBound THEN updateSize(o, payload)
            ELSE Uncaught(updateSize(o, payload))
      [] topic = "color-changed" ->
            IF panelBound THEN updateColor(o, payload)
            ELSE Uncaught(updateColor(o, payload))
      [] topic = "visibility-changed" -> [o EXCEPT !.appHidden = ~payload]
      [] topic = "sync-settings" -> applySync(o, payload)
      [] OTHER -> o

\* a listener that renders the defaults of the other controls again
listenSettingsWhole(s, topic, payload) ==
    CASE topic = "opacity-changed" ->
            updateSizeUI(updateOpacityUI(s, payload), Defaults.size)
      [] topic = "size-changed" ->
            updateColorUI(updateSizeUI(s, payload), Defaults.color)
      [] topic = "color-changed" ->
            updateSizeUI(updateColorUI(s, payload), Defaults.size)
      [] topic = "reticle-changed" ->
            updateSizeUI(updateReticleUI(s, payload), Defaults.size)
      [] OTHER -> s

\* a listener that keeps what a gesture in progress has put on display
listenSettingsUnlessBusy(s, topic, payload) ==
    IF s.gesture # None THEN s
    ELSE CASE topic = "opacity-changed" -> updateOpacityUI(s, payload)
           [] topic = "size-changed" -> updateSizeUI(s, payload)
           [] topic = "color-changed" -> updateColorUI(s, payload)
           [] topic = "reticle-changed" -> updateReticleUI(s, payload)
           [] OTHER -> s

\* settings.ts registers no listener for lock-changed, visibility-changed
\* and sync-settings; crosshair-changed reloads the grid (DeliverSettings)
listenSettings(s, topic, payload) ==
    CASE topic = "opacity-changed" -> updateOpacityUI(s, payload)
      [] topic = "size-changed" -> updateSizeUI(s, payload)
      [] topic = "color-changed" -> updateColorUI(s, payload)
      [] topic = "reticle-changed" -> updateReticleUI(s, payload)
      [] OTHER -> s

Pop(inb, s, topic) == [inb EXCEPT ![s][topic] = Tail(@)]
Received(rc, s, topic, payload) == [rc EXCEPT ![s][topic] = Some(payload)]

\* an overlay surface handles the next notification of a topic
DeliverOverlay ==
    /\ \E s \in Overlays \cap open : \E topic \in Topics :
          /\ inbox[s][topic] # <<>>
          /\ inbox' = Pop(inbox, s, topic)
          /\ recv' = Received(recv, s, topic, Head(inbox[s][topic]))
          /\ ov' = [ov EXCEPT ![s] =
                      listenOverlay(@, topic, Head(inbox[s][topic]))]
    /\ UNCHANGED <<panelBound, store, saved, calls, sent, st, open, catalog,
                   winPos, ext, events>>

\* the settings surface handles the next notification of a topic
DeliverSettings ==
    /\ "settings" \in open
    /\ \E topic \in Topics :
          /\ inbox["settings"][topic] # <<>>
          /\ inbox' = Pop(inbox, "settings", topic)
          /\ recv' = Received(recv, "settings", topic,
                              Head(inbox["settings"][topic]))
          /\ IF topic = "crosshair-changed"
             THEN /\ calls' = Issue(calls, "get_crosshair_list",
                                    Call("settings", "grid_list", None, <<>>,
                                         "log"))
                  /\ sent' = Count(sent, "settings", "get_crosshair_list")
                  /\ st' = st
             ELSE /\ st' = listenSettings(st, topic,
                                          Head(inbox["settings"][topic]))
                  /\ UNCHANGED <<calls, sent>>
    /\ UNCHANGED <<panelBound, store, saved, ov, open, catalog, winPos,
                   ext, events>>

\* the image of an overlay fails to load: the onerror handler runs
ImageError ==
    /\ \E s \in Overlays \cap open :
          /\ ov[s].crosshairImgSrc[1] = "/crosshairs/"
          /\ ov[s].crosshairImgSrc[2] \notin Loadable
          /\ ov' = [ov EXCEPT ![s] = crosshairImgOnError(@)]
    /\ UNCHANGED <<panelBound, store, saved, inbox, recv, calls, sent, st,
                   open, catalog, winPos, ext, events>>

\* the timer of updateLockState removes the animation marker
AnimateTimeout ==
    /\ \E s \in Overlays \cap open :
          /\ ov[s].animTimers > 0
          /\ ov' = [ov EXCEPT ![s].animate = FALSE, ![s].animTimers = @ - 1]
    /\ UNCHANGED <<panelBound, store, saved, inbox, recv, calls, sent, st,
                   open, catalog, winPos, ext, events>>

\* ------------------------------------------------------------------------
\* Hydration of an overlay (init, loadInitialState)
\* ------------------------------------------------------------------------
\* the reads of the Promise.all, by the binding each result is destructured to
HydrationReads ==
    [crosshair |-> "get_crosshair", size |-> "get_size",
     opacity |-> "get_opacity", color |-> "get_color",
     locked |-> "is_locked"]

HydrationFields == DOMAIN HydrationReads

\* catch block of loadInitialState
hydrationFailed(o) ==
    showToast([o EXCEPT !.errors = @ + 1, !.hydration = "failed"], "error")

\* the updates of loadInitialState; updateSize throws where the panel
\* identifiers do not resolve, and the catch block runs
applyInitialState(o, g) ==
    IF panelBound
    THEN [updateLockState(
              updateColor(
                  updateOpacity(
                      updateSize(updateCrosshairImage(o, g.crosshair[1]),
                                 g.size[1]),
                      g.opacity[1]),
                  g.color[1]),
              g.locked[1])
          EXCEPT !.hydration = "grid"]
    ELSE hydrationFailed(updateSize(updateCrosshairImage(o, g.crosshair[1]),
                                    g.size[1]))

\* loadInitialState up to its await: the five reads are issued together
HydrateStart ==
    /\ \E s \in Overlays \cap open :
          /\ ov[s].hydration = "none"
          /\ ov' = [ov EXCEPT ![s].hydration = "reading"]
          /\ calls' = [cmd \in Cmds |->
                          IF \E f \in HydrationFields : HydrationReads[f] = cmd
                          THEN calls[cmd] (+)
                               SetToBag({Call(s, "hydrate", None, <<>>,
                                              "none")})
                          ELSE calls[cmd]]
          /\ sent' = [sent EXCEPT ![s] =
                         [cmd \in Cmds |->
                             IF \E f \in HydrationFields :
                                    HydrationReads[f] = cmd
                             THEN sent[s][cmd] + 1 ELSE sent[s][cmd]]]
    /\ UNCHANGED <<panelBound, store, saved, inbox, recv, st, open, catalog,
                   winPos, ext, events>>

\* one of the five reads has settled; with the last result the updates run,
\* with the first rejection the catch block runs
HydrateArrives ==
    /\ \E f \in HydrationFields :
       \E r \in InFlight(HydrationReads[f]) :
          /\ r.k = "hydrate"
          /\ r.phase \in {"ok", "err"}
          /\ LET s == r.from
                 g == [ov[s].got EXCEPT ![f] = r.ret]
                 complete == \A h \in HydrationFields : g[h] # None
                 taken == Take(calls, HydrationReads[f], r)
             IN  IF ov[s].hydration # "reading"
                 THEN calls' = taken /\ UNCHANGED <<ov, sent>>
                 ELSE IF r.phase = "err"
                 THEN /\ ov' = [ov EXCEPT ![s] = hydrationFailed(@)]
                      /\ calls' = taken
                      /\ sent' = sent
                 ELSE IF ~complete
                 THEN /\ ov' = [ov EXCEPT ![s].got = g]
                      /\ calls' = taken
                      /\ sent' = sent
                 ELSE /\ ov' = [ov EXCEPT ![s] =
                                  applyInitialState([@ EXCEPT !.got = g], g)]
                      /\ IF panelBound
                         THEN /\ calls' = Issue(taken, "get_crosshair_list",
                                                Call(s, "grid_list", None,
                                                     <<>>, "hydrate"))
                              /\ sent' = Count(sent, s, "get_crosshair_list")
                         ELSE calls' = taken /\ sent' = sent
    /\ UNCHANGED <<panelBound, store, saved, inbox, recv, st, open, catalog,
                   winPos, ext, events>>

\* ------------------------------------------------------------------------
\* Pointer handlers of an overlay (setupDragHandle)
\* ------------------------------------------------------------------------
Pointers == {<<0, 0>>, <<3, 4>>}
\* where a mousedown lands: the app, the drag handle, a button or input
Targets == {"app", "drag-handle", "button"}

Plus(a, b) == <<a[1] + b[1], a[2] + b[2]>>
Minus(a, b) == <<a[1] - b[1], a[2] - b[2]>>

\* startDrag up to its await: the window position is read
MouseDown ==
    /\ events < MaxEvents
    /\ events' = events + 1
    /\ \E s \in Overlays \cap open : \E target \in Targets :
       \E p \in Pointers :
          IF ov[s].isLocked \/ target = "button"
          THEN UNCHANGED <<ov, calls, sent>>
          ELSE /\ ov' = [ov EXCEPT ![s].isDragging = TRUE, ![s].start = p,
                                    ![s].dragOrigin = winPos[s]]
               /\ calls' = Issue(calls, "outer_position",
                                 Call(s, "drag_pos", None, <<>>, "none"))
               /\ sent' = Count(sent, s, "outer_position")
    /\ UNCHANGED <<panelBound, store, saved, inbox, recv, st, open, catalog,
                   winPos, ext>>

\* startDrag after its await
DragPositionArrives ==
    /\ \E r \in InFlight("outer_position") :
          /\ r.k = "drag_pos"
          /\ r.phase \in {"ok", "err"}
          /\ calls' = Take(calls, "outer_position", r)
          /\ ov' = [ov EXCEPT ![r.from] =
                      IF r.phase = "ok"
                      THEN [@ EXCEPT !.window = r.ret[1],
                                     !.cursor = "grabbing"]
                      ELSE Uncaught(@)]
    /\ UNCHANGED <<panelBound, store, saved, inbox, recv, sent, st, open,
                   catalog, winPos, ext, events>>

\* a mousemove listener that commits every intermediate position
MouseMoveCommitting ==
    /\ events < MaxEvents
    /\ events' = events + 1
    /\ \E s \in Overlays \cap open : \E p \in Pointers :
          IF ~ov[s].isDragging
          THEN UNCHANGED <<calls, sent>>
          ELSE /\ calls' = Issue(Issue(calls, "set_position",
                                       Call(s, "none",
                                            Some(Plus(ov[s].window,
                                                      Minus(p, ov[s].start))),
                                            <<>>, "none")),
                                 "save_preferences",
                                 Call(s, "log", None, <<>>, "none"))
               /\ sent' = Count(Count(sent, s, "set_position"), s,
                                "save_preferences")
    /\ UNCHANGED <<panelBound, store, saved, inbox, recv, ov, st, open,
                   catalog, winPos, ext>>

\* mousemove listener
MouseMove ==
    /\ events < MaxEvents
    /\ events' = events + 1
    /\ \E s \in Overlays \cap open : \E p \in Pointers :
          IF ~ov[s].isDragging
          THEN UNCHANGED <<calls, sent>>
          ELSE               /\ calls' = Issue(calls, "set_position",
                                 Call(s, "none",
                                      Some(Plus(ov[s].window,
                                                Minus(p, ov[s].start))),
                                      <<>>, "none"))
               /\ sent' = Count(sent, s, "set_position")
    /\ UNCHANGED <<panelBound, store, saved, inbox, recv, ov, st, open,
                   catalog, winPos, ext>>

\* mouseup listener
MouseUp ==
    /\ events < MaxEvents
    /\ events' = events + 1
    /\ \E s \in Overlays \cap open :
          IF ~ov[s].isDragging
          THEN UNCHANGED <<ov, calls, sent>>
          ELSE               /\ ov' = [ov EXCEPT ![s].isDragging = FALSE, ![s].cursor = ""]
               /\ calls' = Issue(calls, "save_preferences",
                                 Call(s, "log", None, <<>>, "none"))
               /\ sent' = Count(sent, s, "save_preferences")
    /\ UNCHANGED <<panelBound, store, saved, inbox, recv, st, open, catalog,
                   winPos, ext>>

\* a rejection handler that put the controls back to the defaults
consoleErrorAndRevert(s) ==
    [s EXCEPT !.errors = @ + 1,
              !.sizeSlider = Defaults.size,
              !.opacitySlider = RoundPercent(Defaults.opacity),
              !.colorPicker = Defaults.color]

\* .catch(console.error): the rejection is logged, nothing else happens
consoleError(s) == [s EXCEPT !.errors = @ + 1]

\* a request nobody awaits has settled: with .catch(console.error) a
\* rejection is logged, without it the rejection is unhandled
DetachedSettles ==
    /\ \E cmd \in Cmds : \E r \in InFlight(cmd) :
          /\ r.k \in {"log", "none"}
          /\ r.phase \in {"ok", "err"}
          /\ calls' = Take(calls, cmd, r)
          /\ IF r.phase = "ok" THEN UNCHANGED <<ov, st>>
             ELSE IF r.from = "settings"
             THEN /\ st' = IF r.k = "log" THEN consoleError(st)
                           ELSE Uncaught(st)
                  /\ ov' = ov
             ELSE /\ ov' = [ov EXCEPT ![r.from] =
                              IF r.k = "log" THEN consoleError(@)
                              ELSE Uncaught(@)]
                  /\ st' = st
    /\ UNCHANGED <<panelBound, store, saved, inbox, recv, sent, open, catalog,
                   winPos, ext, events>>

\* ------------------------------------------------------------------------
\* open-chooser listener of an overlay
\* ------------------------------------------------------------------------
\* a listener that applied the returned value as the local lock state
applyToggleLockResult(o, newValue) == updateLockState(o, newValue)

\* the listener discards the value toggleLock() returns
afterToggleLock(o, newValue) == o

\* the listener up to its first await
OpenChooser ==
    /\ events < MaxEvents
    /\ events' = events + 1
    /\ \E s \in Overlays \cap open :
          IF ov[s].isLocked
          THEN /\ calls' = Issue(calls, "toggle_lock",
                                 Marked(Call(s, "chooser_unlock", None, <<>>,
                                             "chooser"),
                                        Some(Len(ov[s].lockSeen))))
               /\ sent' = Count(sent, s, "toggle_lock")
          ELSE /\ calls' = Issue(calls, "get_crosshair_list",
                                 Call(s, "grid_list", None, <<>>, "chooser"))
               /\ sent' = Count(sent, s, "get_crosshair_list")
    /\ UNCHANGED <<panelBound, store, saved, inbox, recv, ov, st, open,
                   catalog, winPos, ext>>

\* toggleLock() has settled: the grid is loaded next
ChooserUnlockArrives ==
    /\ \E r \in InFlight("toggle_lock") :
          /\ r.k = "chooser_unlock"
          /\ \/ /\ r.phase = "ok"
                /\ calls' = Issue(Take(calls, "toggle_lock", r),
                                  "get_crosshair_list",
                                  Marked(Call(r.from, "grid_list", None, <<>>,
                                              "chooser"), r.mark))
                /\ sent' = Count(sent, r.from, "get_crosshair_list")
                /\ ov' = [ov EXCEPT ![r.from] = afterToggleLock(@, r.ret[1])]
             \/ /\ r.phase = "err"
                /\ calls' = Take(calls, "toggle_lock", r)
                /\ ov' = [ov EXCEPT ![r.from] = Uncaught(@)]
                /\ sent' = sent
    /\ UNCHANGED <<panelBound, store, saved, inbox, recv, st, open, catalog,
                   winPos, ext, events>>

\* ------------------------------------------------------------------------
\* Window buttons of the settings surface
\* ------------------------------------------------------------------------
WindowCmds == {"center_window", "move_to_next_display"}

\* btnCenter, btnNextDisplay up to their await
WindowButtonClick ==
    /\ events < MaxEvents
    /\ events' = events + 1
    /\ "settings" \in open
    /\ \E cmd \in WindowCmds :
          /\ calls' = Issue(calls, cmd,
                            Call("settings", "window", None, <<>>, "none"))
          /\ sent' = Count(sent, "settings", cmd)
    /\ UNCHANGED <<panelBound, store, saved, inbox, recv, ov, st, open,
                   catalog, winPos, ext>>

\* btnCenter, btnNextDisplay after their await: a toast either way
WindowRequestArrives ==
    /\ \E cmd \in WindowCmds : \E r \in InFlight(cmd) :
          /\ r.k = "window"
          /\ r.phase \in {"ok", "err"}
          /\ calls' = Take(calls, cmd, r)
          /\ st' = showToast(st, IF r.phase = "ok" THEN "success"
                                 ELSE "error")
    /\ UNCHANGED <<panelBound, store, saved, inbox, recv, sent, ov, open,
                   catalog, winPos, ext, events>>

\* the window owner centers the overlay window or moves it to the next display
ServeWindow ==
    /\ \E cmd \in WindowCmds : \E r \in InFlight(cmd) :
          /\ r.phase = "sent"
          /\ winPos' = [winPos EXCEPT !["primary"] =
                            IF cmd = "center_window" THEN <<0, 0>>
                            ELSE Plus(@, <<8, 0>>)]
          /\ calls' = Replace(calls, cmd, r, Done(r))
    /\ UNCHANGED <<panelBound, store, saved, inbox, recv, sent, ov, st, open,
                   catalog, ext, events>>

\* ------------------------------------------------------------------------
\* Controls of the settings surface: sliders, color picker, color text
\* input, reticle buttons
\* ------------------------------------------------------------------------
Controls == {"size", "opacity", "color"}

SetOf(ctl) ==
    CASE ctl = "size" -> "set_size"
      [] ctl = "opacity" -> "set_opacity"
      [] ctl = "color" -> "set_color"

\* what the control holds while the user moves it: the size slider a number
\* of pixels, the opacity slider a percentage, the picker a color
Percents == {80, 50}
RawValues(ctl) ==
    CASE ctl = "size" -> Sizes
      [] ctl = "opacity" -> Percents
      [] ctl = "color" -> Colors

\* parseInt(sizeSlider.value), parseInt(opacitySlider.value) / 100,
\* colorPicker.value
inputValue(ctl, raw) ==
    CASE ctl = "size" -> raw
      [] ctl = "opacity" -> (raw * 1000) \div 100
      [] ctl = "color" -> raw

updateUI(s, ctl, v) ==
    CASE ctl = "size" -> updateSizeUI(s, v)
      [] ctl = "opacity" -> updateOpacityUI(s, v)
      [] ctl = "color" -> updateColorUI(s, v)

\* requests are listed as pairs <<command, call>> in the order of issue
RECURSIVE IssueAll(_, _)
IssueAll(c, reqs) ==
    IF Len(reqs) = 0 THEN c
    ELSE IssueAll(Issue(c, reqs[1][1], reqs[1][2]), Tail(reqs))

RECURSIVE CountAll(_, _, _)
CountAll(sn, from, reqs) ==
    IF Len(reqs) = 0 THEN sn
    ELSE CountAll(Count(sn, from, reqs[1][1]), from, Tail(reqs))

NumOf(reqs, cmd) == Cardinality({i \in 1..Len(reqs) : reqs[i][1] = cmd})

\* an input handler that also committed on every intermediate value
inputRequestsCommitting(ctl, v) ==
    << <<SetOf(ctl), Call("settings", "log", Some(v), <<>>, "none")>>,
       <<"save_preferences", Call("settings", "none", None, <<>>, "none")>> >>

\* the requests of an "input" handler: the set, its rejection logged
inputRequests(ctl, v) ==
    << <<SetOf(ctl), Call("settings", "log", Some(v), <<>>, "none")>> >>

\* the requests of a "change" handler up to its await: the commit
changeRequests(ctl) ==
    << <<"save_preferences",
         Call("settings", IF ctl = "color" THEN "picker_save" ELSE "none",
              None, <<>>, "none")>> >>

\* "input" of a slider or of the picker: one more value of a gesture
ControlInput ==
    /\ events < MaxEvents
    /\ events' = events + 1
    /\ "settings" \in open
    /\ \E ctl \in Controls : \E raw \in RawValues(ctl) :
          /\ IF st.gesture = None THEN TRUE ELSE st.gesture[1].ctl = ctl
          /\ LET v == inputValue(ctl, raw)
                 reqs == inputRequests(ctl, v)
                 g == IF st.gesture = None
                      THEN [ctl |-> ctl, n |-> 0, sets |-> 0, saves |-> 0]
                      ELSE st.gesture[1]
             IN  /\ st' = [updateUI(st, ctl, v) EXCEPT
                             !.gesture =
                                 Some([g EXCEPT
                                         !.n = @ + 1,
                                         !.sets = @ + NumOf(reqs, SetOf(ctl)),
                                         !.saves = @ + NumOf(reqs,
                                                       "save_preferences")]),
                             !.lastEvent = "input"]
                 /\ calls' = IssueAll(calls, reqs)
                 /\ sent' = CountAll(sent, "settings", reqs)
    /\ UNCHANGED <<panelBound, store, saved, inbox, recv, ov, open, catalog,
                   winPos, ext>>

\* "change" of a slider or of the picker: the gesture ends
ControlChange ==
    /\ events < MaxEvents
    /\ events' = events + 1
    /\ "settings" \in open
    /\ \E ctl \in Controls :
          /\ IF st.gesture = None THEN TRUE ELSE st.gesture[1].ctl = ctl
          /\ LET reqs == changeRequests(ctl)
                 g == IF st.gesture = None
                      THEN [ctl |-> ctl, n |-> 0, sets |-> 0, saves |-> 0]
                      ELSE st.gesture[1]
             IN  /\ st' = [st EXCEPT
                             !.gesture = None,
                             !.closed =
                                 Some([g EXCEPT
                                         !.sets = @ + NumOf(reqs, SetOf(ctl)),
                                         !.saves = @ + NumOf(reqs,
                                                       "save_preferences")]),
                             !.lastEvent = "change"]
                 /\ calls' = IssueAll(calls, reqs)
                 /\ sent' = CountAll(sent, "settings", reqs)
    /\ UNCHANGED <<panelBound, store, saved, inbox, recv, ov, open, catalog,
                   winPos, ext>>

\* the picker's "change" handler after its await: a toast, or the
\* rejection escapes
PickerSaveArrives ==
    /\ \E r \in InFlight("save_preferences") :
          /\ r.k = "picker_save"
          /\ r.phase \in {"ok", "err"}
          /\ calls' = Take(calls, "save_preferences", r)
          /\ st' = IF r.phase = "ok" THEN showToast(st, "success")
                   ELSE Uncaught(st)
    /\ UNCHANGED <<panelBound, store, saved, inbox, recv, sent, ov, open,
                   catalog, winPos, ext, events>>

\* ------------------------------------------------------------------------
\* Color text input of the settings surface
\* ------------------------------------------------------------------------
HexDigits == {"0", "1", "2", "3", "4", "5", "6", "7", "8", "9",
              "a", "b", "c", "d", "e", "f", "A", "B", "C", "D", "E", "F"}

\* texts a user may leave in the field: a color, letters that are no hex
\* digits, a digit too many, a digit too few
TextNoHex == <<"#", "z", "z", "z", "z", "z", "z">>
TextLong == <<"#", "1", "a", "2", "b", "3", "c", "4">>
TextShort == <<"#", "1", "a", "2", "b", "3">>
Texts == {ColorNavy, TextNoHex, TextLong, TextShort}

\* the test without the closing anchor: /^#[0-9A-Fa-f]{6}/
testColorPrefix(color) ==
    /\ Len(color) >= 7
    /\ color[1] = "#"
    /\ \A i \in 2..7 : color[i] \in HexDigits

\* /^#[0-9A-Fa-f]{6}$/.test(color)
testColor(color) ==
    /\ Len(color) = 7
    /\ color[1] = "#"
    /\ \A i \in 2..7 : color[i] \in HexDigits

\* a handler that issued the commit together with the set, as the reticle
\* buttons do
submitRequestsDetached(color, id) ==
    << <<"set_color", Marked(Call("settings", "text_set", Some(color), <<>>,
                                  "none"), Some(id))>>,
       <<"save_preferences", Marked(Call("settings", "text_save", None, <<>>,
                                         "none"), Some(id))>> >>

\* the requests of the "change" handler of the text input up to its first
\* await
submitRequests(color, id) ==
    << <<"set_color", Marked(Call("settings", "text_set", Some(color), <<>>,
                                  "none"), Some(id))>> >>

\* the user edits the text of the field
TypeColorText ==
    /\ events < MaxEvents
    /\ "settings" \in open
    /\ st.gesture = None
    /\ \E text \in Texts :
          /\ text # st.colorInput
          /\ st' = [st EXCEPT !.colorInput = text]
    /\ UNCHANGED <<panelBound, store, saved, inbox, recv, calls, sent, ov,
                   open, catalog, winPos, ext, events>>

\* "change" of the text input up to its first await
ColorInputChange ==
    /\ events < MaxEvents
    /\ events' = events + 1
    /\ "settings" \in open
    /\ st.gesture = None
    /\ LET color == st.colorInput
           id == Len(st.subs) + 1
           reqs == submitRequests(color, id)
       IN  IF testColor(color)
           THEN /\ st' = [updateColorUI(st, color) EXCEPT
                            !.subs = Append(@,
                                [color |-> color,
                                 sets |-> Cardinality(
                                     {i \in 1..Len(reqs) :
                                         /\ reqs[i][1] = "set_color"
                                         /\ reqs[i][2].val = Some(color)}),
                                 saves |-> NumOf(reqs, "save_preferences"),
                                 setDone |-> FALSE,
                                 ended |-> "no"]),
                            !.lastEvent = "color-text"]
                /\ calls' = IssueAll(calls, reqs)
                /\ sent' = CountAll(sent, "settings", reqs)
           ELSE /\ st' = [showToast(st, "error") EXCEPT
                            !.lastEvent = "color-text"]
                /\ UNCHANGED <<calls, sent>>
    /\ UNCHANGED <<panelBound, store, saved, inbox, recv, ov, open, catalog,
                   winPos, ext>>

\* setColor has settled: the commit is issued, or the rejection escapes
TextSetArrives ==
    /\ \E r \in InFlight("set_color") :
          /\ r.k = "text_set"
          /\ LET id == r.mark[1]
                 taken == Take(calls, "set_color", r)
             IN  \/ /\ r.phase = "ok"
                    /\ calls' = Issue(taken, "save_preferences",
                                      Marked(Call("settings", "text_save",
                                                  None, <<>>, "none"),
                                             r.mark))
                    /\ sent' = Count(sent, "settings", "save_preferences")
                    /\ st' = [st EXCEPT !.subs[id].saves = @ + 1,
                                        !.subs[id].setDone = TRUE]
                 \/ /\ r.phase = "err"
                    /\ calls' = taken
                    /\ sent' = sent
                    /\ st' = [Uncaught(st) EXCEPT
                                !.subs[id].ended = "set-rejected"]
    /\ UNCHANGED <<panelBound, store, saved, inbox, recv, ov, open, catalog,
                   winPos, ext, events>>

\* savePreferences has settled: the toast, or the rejection escapes
TextSaveArrives ==
    /\ \E r \in InFlight("save_preferences") :
          /\ r.k = "text_save"
          /\ r.phase \in {"ok", "err"}
          /\ calls' = Take(calls, "save_preferences", r)
          /\ st' = IF r.phase = "ok"
                   THEN [showToast(st, "success") EXCEPT
                           !.subs[r.mark[1]].ended = "saved"]
                   ELSE [Uncaught(st) EXCEPT
                           !.subs[r.mark[1]].ended = "save-rejected"]
    /\ UNCHANGED <<panelBound, store, saved, inbox, recv, sent, ov, open,
                   catalog, winPos, ext, events>>

\* ------------------------------------------------------------------------
\* Reticle buttons of the settings surface
\* ------------------------------------------------------------------------
\* click: the local update, then the set and the commit, neither awaited
ReticleClick ==
    /\ events < MaxEvents
    /\ events' = events + 1
    /\ "settings" \in open
    /\ st.gesture = None
    /\ \E type \in Reticles :
          /\ st' = [updateReticleUI(st, type) EXCEPT !.lastEvent = "reticle"]
          /\ calls' = Issue(Issue(calls, "set_reticle",
                                  Call("settings", "log", Some(type), <<>>,
                                       "none")),
                            "save_preferences",
                            Call("settings", "log", None, <<>>, "none"))
          /\ sent' = Count(Count(sent, "settings", "set_reticle"),
                           "settings", "save_preferences")
    /\ UNCHANGED <<panelBound, store, saved, inbox, recv, ov, open, catalog,
                   winPos, ext>>

\* ------------------------------------------------------------------------
\* Hydration of the settings surface (init, loadInitialState) and Reset
\* ------------------------------------------------------------------------
\* the reads of the Promise.all, by the binding each result is destructured to
SettingsReads ==
    [size |-> "get_size", opacity |-> "get_opacity", color |-> "get_color",
     reticle |-> "get_reticle", followMouse |-> "get_follow_mouse",
     hideAds |-> "get_hide_on_ads",
     autostartEnabled |-> "autostart_is_enabled"]

SettingsFields == DOMAIN SettingsReads
SettingsReadCmds == {SettingsReads[f] : f \in SettingsFields}

\* the reads of loadInitialState() called by `then` that are in flight or
\* answered
Batch(f, then) ==
    {r \in InFlight(SettingsReads[f]) :
        r.from = "settings" /\ r.k = "hydrate" /\ r.then = then}

Settled(f, then, phase) == {r \in Batch(f, then) : r.phase = phase}

\* loadInitialState up to its await: the seven reads are issued together
startBatch(c, then) ==
    [cmd \in Cmds |->
        IF cmd \in SettingsReadCmds
        THEN c[cmd] (+) SetToBag({Call("settings", "hydrate", None, <<>>,
                                       then)})
        ELSE c[cmd]]

countBatch(sn) ==
    [sn EXCEPT !["settings"] =
        [cmd \in Cmds |->
            IF cmd \in SettingsReadCmds THEN sn["settings"][cmd] + 1
            ELSE sn["settings"][cmd]]]

\* the batch leaves: one read of each field
dropBatch(c, then) ==
    [cmd \in Cmds |->
        IF cmd \in SettingsReadCmds
        THEN LET f == CHOOSE h \in SettingsFields : SettingsReads[h] = cmd
                 rs == IF Settled(f, then, "ok") # {}
                       THEN Settled(f, then, "ok")
                       ELSE Batch(f, then)
             IN  c[cmd] (-) SetToBag({CHOOSE r \in rs : TRUE})
        ELSE c[cmd]]

\* the updates of loadInitialState
applyInitialStateSettings(s, g) ==
    [updateReticleUI(
         updateColorUI(
             updateOpacityUI(updateSizeUI(s, g.size[1]), g.opacity[1]),
             g.color[1]),
         g.reticle[1])
     EXCEPT !.followChecked = g.followMouse[1],
            !.hideAdsChecked = g.hideAds[1],
            !.autostartChecked = g.autostartEnabled[1]]

\* catch block of loadInitialState
hydrationFailedSettings(s) == showToast([s EXCEPT !.errors = @ + 1], "error")

\* init() calls loadInitialState()
SettingsHydrateStart ==
    /\ "settings" \in open
    /\ st.hydration = "none"
    /\ st' = [st EXCEPT !.hydration = "reading"]
    /\ calls' = startBatch(calls, "init")
    /\ sent' = countBatch(sent)
    /\ UNCHANGED <<panelBound, store, saved, inbox, recv, ov, open, catalog,
                   winPos, ext, events>>

\* the Promise.all has settled: with every result the updates run and the
\* grid is loaded, with the first rejection the catch block runs
SettingsHydrateArrives ==
    /\ \E then \in {"init", "reset"} :
          /\ \A f \in SettingsFields : Batch(f, then) # {}
          /\ \/ /\ \A f \in SettingsFields : Settled(f, then, "ok") # {}
                /\ LET g == [f \in SettingsFields |->
                               (CHOOSE r \in Settled(f, then, "ok") :
                                    TRUE).ret]
                   IN  st' = [applyInitialStateSettings(st, g) EXCEPT
                                !.got = Some(g), !.loads = @ + 1,
                                !.hydration = IF then = "init" THEN "grid"
                                              ELSE @]
                /\ calls' = Issue(dropBatch(calls, then),
                                  "get_crosshair_list",
                                  Call("settings", "grid_list", None, <<>>,
                                       then))
                /\ sent' = Count(sent, "settings", "get_crosshair_list")
             \/ /\ \E f \in SettingsFields : Settled(f, then, "err") # {}
                /\ st' = afterLoadSettings(hydrationFailedSettings(st), then)
                /\ calls' = dropBatch(calls, then)
                /\ sent' = sent
    /\ UNCHANGED <<panelBound, store, saved, inbox, recv, ov, open, catalog,
                   winPos, ext, events>>

\* the order in which loadInitialState issues its reads
SettingsOrder ==
    <<"size", "opacity", "color", "reticle", "followMouse", "hideAds",
      "autostartEnabled">>

\* r is the next request of its surface the store gets to: the reads of a
\* batch are taken in the order of issue
IsNext(cmd, r) ==
    \/ r.k # "hydrate"
    \/ r.from # "settings"
    \/ \A i \in 1..Len(SettingsOrder) :
          SettingsReads[SettingsOrder[i]] = cmd
          => \A j \in 1..(i - 1) :
                Settled(SettingsOrder[j], r.then, "sent") = {}

\* the store answers a read, the reads of a batch in the order of issue
ServeReadInOrder ==
    /\ \E cmd \in ReadCmds : \E r \in InFlight(cmd) :
          /\ r.phase = "sent"
          /\ IsNext(cmd, r)
          /\ calls' = Replace(calls, cmd, r, Answered(r, ReadResult(cmd, r.from)))
    /\ UNCHANGED <<panelBound, store, saved, inbox, recv, sent, ov, st, open,
                   catalog, winPos, ext, events>>

\* a request fails, the reads of a batch taken in the order of issue
ServeFailInOrder ==
    /\ \E cmd \in Cmds : \E r \in InFlight(cmd) :
          /\ r.phase = "sent"
          /\ IsNext(cmd, r)
          /\ calls' = Replace(calls, cmd, r, Rejected(r))
    /\ UNCHANGED <<panelBound, store, saved, inbox, recv, sent, ov, st, open,
                   catalog, winPos, ext, events>>

\* the reset flow of the settings surface is under way
Resetting ==
    \/ \E r \in InFlight("reset_preferences") : r.from = "settings"
    \/ \E f \in SettingsFields : Batch(f, "reset") # {}
    \/ \E cmd \in {"get_crosshair_list", "get_crosshair"} :
          \E r \in InFlight(cmd) : r.from = "settings" /\ r.then = "reset"

\* the requests of the reset handler up to its first await, had it started
\* the reads without waiting
resetRequestsDetached(c) ==
    startBatch(Issue(c, "reset_preferences",
                     Call("settings", "reset", None, <<>>, "none")),
               "reset")

\* the requests of the reset handler up to its first await
resetRequests(c) ==
    Issue(c, "reset_preferences",
          Call("settings", "reset", None, <<>>, "none"))

\* btnReset click up to its first await (the button is clicked again only
\* once the flow of the click before has ended)
ResetClick ==
    /\ events < MaxEvents
    /\ events' = events + 1
    /\ "settings" \in open
    /\ ~Resetting
    /\ st' = [st EXCEPT !.lastEvent = "reset"]
    /\ calls' = resetRequests(calls)
    /\ sent' = [s \in Surfaces |-> [cmd \in Cmds |->
                   IF s = "settings"
                   THEN sent[s][cmd] + BagCardinality(calls'[cmd])
                                     - BagCardinality(calls[cmd])
                   ELSE sent[s][cmd]]]
    /\ UNCHANGED <<panelBound, store, saved, inbox, recv, ov, open, catalog,
                   winPos, ext>>

\* resetPreferences() has settled: loadInitialState() is called, or the
\* catch block raises a toast
ResetArrives ==
    /\ \E r \in InFlight("reset_preferences") :
          /\ r.k = "reset"
          /\ \/ /\ r.phase = "ok"
                /\ calls' = startBatch(Take(calls, "reset_preferences", r),
                                       "reset")
                /\ sent' = countBatch(sent)
                /\ st' = st
             \/ /\ r.phase = "err"
                /\ calls' = Take(calls, "reset_preferences", r)
                /\ sent' = sent
                /\ st' = showToast(st, "error")
    /\ UNCHANGED <<panelBound, store, saved, inbox, recv, ov, open, catalog,
                   winPos, ext, events>>

\* the topics of the fields a reset may change, in the order of broadcast
ResetTopics ==
    <<"crosshair-changed", "size-changed", "opacity-changed",
      "color-changed", "reticle-changed", "lock-changed",
      "visibility-changed">>

RECURSIVE EmitReset(_, _)
EmitReset(inb, i) ==
    IF i > Len(ResetTopics) THEN inb
    ELSE LET field == FieldOf(ResetTopics[i])
         IN  EmitReset(IF store[field] # Defaults[field]
                       THEN Emit(inb, ResetTopics[i], Defaults[field])
                       ELSE inb,
                       i + 1)

\* reset_preferences: the store reloads the defaults and broadcasts every
\* field that changed
ServeReset ==
    /\ \E r \in InFlight("reset_preferences") :
          /\ r.phase = "sent"
          /\ store' = Defaults
          /\ inbox' = EmitReset(inbox, 1)
          /\ calls' = Replace(calls, "reset_preferences", r, Done(r))
    /\ UNCHANGED <<panelBound, saved, recv, sent, ov, st, open, catalog,
                   winPos, ext, events>>

\* the lock hotkey: the store toggles the flag and broadcasts it
ExternalToggleLock ==
    /\ ext < MaxExternal
    /\ ext' = ext + 1
    /\ StoreCommit("lock-changed", ~store.locked)
    /\ UNCHANGED <<panelBound, saved, recv, calls, sent, ov, st, open,
                   catalog, winPos, events>>

\* ------------------------------------------------------------------------
\* Lock gate: pointer events and lock toggles on the primary surface
\* ------------------------------------------------------------------------
InitDrag ==
    /\ InitCommon
    /\ store = Defaults
    /\ open = {"primary"}

NextDrag ==
    \/ MouseDown
    \/ DragPositionArrives
    \/ MouseMove
    \/ MouseUp
    \/ DetachedSettles
    \/ ExternalToggleLock
    \/ DeliverOverlay
    \/ ServeRead
    \/ ServeSave
    \/ ServeSetPosition
    \/ ServeFail
    \/ AnimateTimeout

SpecDrag == InitDrag /\ [][NextDrag]_vars

\* ------------------------------------------------------------------------
\* Chooser: open-chooser requests and lock toggles on the primary surface
\* ------------------------------------------------------------------------
InitChooser ==
    /\ InitCommon
    /\ store = Defaults
    /\ open = {"primary"}

NextChooser ==
    \/ OpenChooser
    \/ ChooserUnlockArrives
    \/ GridListArrives
    \/ GridCurrentArrives
    \/ ExternalToggleLock
    \/ DeliverOverlay
    \/ ServeRead
    \/ ServeToggleLock
    \/ ServeFail
    \/ AnimateTimeout

SpecChooser == InitChooser /\ [][NextChooser]_vars

\* ------------------------------------------------------------------------
\* Notifications only: the primary and the settings surface are open, the
\* store changes on its own
\* ------------------------------------------------------------------------
InitBus == InitCommon /\ store = Defaults /\ open = {"primary", "settings"}

NextBus ==
    \/ ExternalChange
    \/ ExternalSync
    \/ DeliverOverlay
    \/ DeliverSettings
    \/ ServeRead
    \/ ServeFail
    \/ GridListArrives
    \/ GridCurrentArrives
    \/ ImageError
    \/ AnimateTimeout

SpecBus == InitBus /\ [][NextBus]_vars

\* the same, on a page where the panel identifiers of main.ts resolve
InitSync == InitBus /\ panelBound

SpecSync == InitSync /\ [][NextBus]_vars

\* no request of surface s is in flight, no response waits to be consumed
Idle(s) == \A cmd \in Cmds : \A r \in InFlight(cmd) : r.from # s

\* the fields a surface keeps a local value of
Keeps(s, topic) ==
    IF s \in Overlays THEN topic \in FieldTopics
    ELSE topic \in {"opacity-changed", "size-changed", "color-changed",
                    "reticle-changed"}

\* the local value of the field of `topic` on surface s is payload; a
\* crosshair that cannot be loaded may be shown as the default image
LocalIs(s, topic, payload) ==
    IF s \in Overlays
    THEN CASE topic = "lock-changed" -> ov[s].isLocked = payload
           [] topic = "crosshair-changed" ->
                 \/ ov[s].crosshairImgSrc = <<"/crosshairs/", payload>>
                 \/ /\ payload \notin Loadable
                    /\ ov[s].crosshairImgSrc[2] = "crosshair-default.png"
           [] topic = "opacity-changed" -> ov[s].opacityCss = payload
           [] topic = "size-changed" -> ov[s].sizeCss = payload
           [] topic = "color-changed" -> ov[s].colorCss = payload
           [] topic = "reticle-changed" -> ov[s].currentReticle = payload
           [] topic = "visibility-changed" -> ov[s].appHidden = ~payload
    ELSE CASE topic = "opacity-changed" ->
                 st.opacitySlider = RoundPercent(payload)
           [] topic = "size-changed" -> st.sizeSlider = payload
           [] topic = "color-changed" -> st.colorPicker = payload
           [] topic = "reticle-changed" -> st.reticleActive = payload

\* C1: once a surface has handled every notification sent to it, each field
\* it keeps equals the payload of the last notification it received for
\* that field (no bulk notification having been received).
C1_Convergence ==
    \A s \in open : \A topic \in FieldTopics :
        (/\ Quiet(s)
         /\ Keeps(s, topic)
         /\ recv[s]["sync-settings"] = None
         /\ recv[s][topic] # None)
        => LocalIs(s, topic, recv[s][topic][1])

\* overlay o renders aggregate a
Renders(o, a) ==
    /\ o.crosshairImgSrc = <<"/crosshairs/", a.crosshair>>
    /\ o.sizeCss = a.size
    /\ o.opacityCss = a.opacity
    /\ o.colorCss = a.color
    /\ o.isLocked = a.locked
    /\ o.currentReticle = a.reticle

\* surface s handles the next notification of `topic` in this step
Handles(s, topic) ==
    /\ inbox[s][topic] # <<>>
    /\ inbox'[s][topic] = Tail(inbox[s][topic])

\* C7: an overlay that handles a sync-settings notification carrying
\* aggregate A renders A afterwards (crosshair, size, opacity, color, locked,
\* reticle), whatever it rendered before.
C7_BulkHydration ==
    [][\A s \in Overlays \cap open :
          Handles(s, "sync-settings")
          => Renders(ov'[s], Head(inbox[s]["sync-settings"]))]_vars

\* the requests by which a surface changes a window position
PositionCmds == {"set_position", "center_window", "move_to_next_display"}

\* C2: a surface whose last lock-changed notification carried true issues no
\* position change: no drag move, no window re-positioning request.
C2_LockGating ==
    [][\A s \in open :
          (/\ recv[s]["lock-changed"] = Some(TRUE)
           /\ recv'[s]["lock-changed"] = Some(TRUE))
          => \A cmd \in PositionCmds : sent'[s][cmd] = sent[s][cmd]]_vars

\* C3: when the chooser modal is shown for an open-chooser request that was
\* handled while the surface was locked, the surface has seen exactly one
\* lock transition since the request, an unlock (stated for the case that
\* no lock-changed notification is waiting to be handled at that moment).
C3_UnlockBeforeChooser ==
    [][\A s \in Overlays \cap open :
          (/\ ov[s].chooserModalHidden
           /\ ~ov'[s].chooserModalHidden
           /\ ov'[s].chooserSaw # None
           /\ inbox[s]["lock-changed"] = <<>>)
          => ov'[s].chooserSaw = Some(<<"unlock">>)]_vars

\* ------------------------------------------------------------------------
\* Hydration of the primary surface while the lock is toggled
\* ------------------------------------------------------------------------
InitHydrate == InitCommon /\ store.reticle = "none" /\ open = {"primary"}

NextHydrate ==
    \/ HydrateStart
    \/ HydrateArrives
    \/ GridListArrives
    \/ GridCurrentArrives
    \/ ExternalToggleLock
    \/ DeliverOverlay
    \/ ServeRead
    \/ ServeFail
    \/ AnimateTimeout

SpecHydrate == InitHydrate /\ [][NextHydrate]_vars

\* ------------------------------------------------------------------------
\* Lock state of the primary surface: open-chooser requests up to the
\* moment the grid is asked for, lock toggles and bulk notifications
\* ------------------------------------------------------------------------
InitGate == InitCommon /\ store = Defaults /\ open = {"primary"}

NextGate ==
    \/ OpenChooser
    \/ ChooserUnlockArrives
    \/ ExternalToggleLock
    \/ ExternalSync
    \/ DeliverOverlay
    \/ ServeToggleLock
    \/ ServeFail
    \/ AnimateTimeout

SpecGate == InitGate /\ [][NextGate]_vars

\* what a surface shows and keeps of the lock
LockView(o) ==
    <<o.isLocked, o.appLocked, o.dragHandleHidden, o.lockIndicatorHidden,
      o.settingsButtonHidden>>

\* C8: the local lock state of an overlay changes only in a step that
\* handles a lock-changed or a sync-settings notification, or that applies
\* the initial reads; issuing toggleLock and receiving its returned value
\* changes nothing of it.
C8_LockFromNotifications ==
    [][\A s \in Overlays \cap open :
          LockView(ov'[s]) # LockView(ov[s])
          => \/ Handles(s, "lock-changed")
             \/ Handles(s, "sync-settings")
             \/ ov[s].hydration = "reading"]_vars

\* toggleLock has returned to the open-chooser listener, which went on to
\* load the grid, and the surface is still locked: no lock transition since
\* the request
C8_Witness ==
    \E r \in InFlight("get_crosshair_list") :
        /\ r.then = "chooser"
        /\ r.mark # None
        /\ ov[r.from].isLocked
        /\ Len(ov[r.from].lockSeen) = r.mark[1]
        /\ ~store.locked

\* C9: once the hydration of the primary surface has completed and none of
\* its requests and notifications is in flight, its lock, size, opacity,
\* color and crosshair are the store's current values.
C9_EventualConsistency ==
    (/\ ov["primary"].hydration = "done"
     /\ Idle("primary")
     /\ Quiet("primary"))
    => /\ ov["primary"].isLocked = store.locked
       /\ ov["primary"].sizeCss = store.size
       /\ ov["primary"].opacityCss = store.opacity
       /\ ov["primary"].colorCss = store.color
       /\ ov["primary"].crosshairImgSrc = <<"/crosshairs/", store.crosshair>>
\* ------------------------------------------------------------------------
\* The settings surface alone: gestures on the sliders and the color
\* picker, the store serving or failing each request
\* ------------------------------------------------------------------------
InitPanel ==
    InitCommon /\ panelBound /\ store = Defaults /\ open = {"settings"}

NextPanel ==
    \/ ControlInput
    \/ ControlChange
    \/ PickerSaveArrives
    \/ DetachedSettles
    \/ DeliverSettings
    \/ ServeSet
    \/ ServeSave
    \/ ServeFail

SpecPanel == InitPanel /\ [][NextPanel]_vars

\* ------------------------------------------------------------------------
\* The settings surface alone: texts typed into and submitted from the
\* color text input, the store serving or failing each request
\* ------------------------------------------------------------------------
InitColorText == InitPanel

NextColorText ==
    \/ TypeColorText
    \/ ColorInputChange
    \/ TextSetArrives
    \/ TextSaveArrives
    \/ DeliverSettings
    \/ ServeSet
    \/ ServeSave
    \/ ServeFail

SpecColorText == InitColorText /\ [][NextColorText]_vars

\* ------------------------------------------------------------------------
\* Reticle selection on the settings surface while every surface is open
\* ------------------------------------------------------------------------
InitReticle ==
    InitCommon /\ panelBound /\ store = Defaults
    /\ open = {"primary", "settings"}

NextReticle ==
    \/ ReticleClick
    \/ DetachedSettles
    \/ DeliverOverlay
    \/ DeliverSettings
    \/ ServeSet
    \/ ServeSave
    \/ ServeFail

SpecReticle == InitReticle /\ [][NextReticle]_vars
\* C4: a gesture on a slider or on the color picker, made of N input events
\* and one change event, issues one set request per input event and no
\* commit while it lasts, and exactly one commit in all, issued by the
\* change event, whatever N is.
C4_Debounce ==
    /\ st.gesture # None
       => /\ st.gesture[1].sets = st.gesture[1].n
          /\ st.gesture[1].saves = 0
    /\ st.closed # None
       => /\ st.closed[1].sets = st.closed[1].n
          /\ st.closed[1].saves = 1

\* a gesture of two input events on the opacity slider has ended
C4_Witness ==
    /\ st.closed # None
    /\ st.closed[1].n = 2
    /\ st.closed[1].ctl = "opacity"
    /\ st.gesture = None

\* the constraint on a color string: "#" and six hexadecimal digits
MatchesRRGGBB(text) ==
    /\ Len(text) = 7
    /\ Head(text) = "#"
    /\ {text[i] : i \in 2..Len(text)} \subseteq HexDigits

\* the step is the "change" event of the color text input
SubmitsColorText == events' # events /\ st'.lastEvent = "color-text"

\* C5: submitting a text that is no #RRGGBB color issues no request at all
\* (no setColor, no commit) and changes nothing of the surface but the
\* toasts, to which one error notice is added.
C5_InvalidColorRejected ==
    [][(SubmitsColorText /\ ~MatchesRRGGBB(st.colorInput))
       => /\ calls' = calls
          /\ sent' = sent
          /\ store' = store
          /\ st' = [st EXCEPT !.toasts = Append(@, "error"),
                              !.lastEvent = "color-text"]]_vars

\* a text of eight characters was submitted and refused
C5_Witness ==
    /\ st.lastEvent = "color-text"
    /\ st.colorInput = TextLong
    /\ st.toasts = <<"error">>
    /\ st.subs = <<>>

\* C6 as stated: every submission of a valid color issues exactly one
\* setColor of that color, no commit before that request has completed, and
\* exactly one commit once its handler has ended.
C6_SetThenCommit ==
    \A i \in 1..Len(st.subs) :
        /\ st.subs[i].sets = 1
        /\ ~st.subs[i].setDone => st.subs[i].saves = 0
        /\ st.subs[i].setDone => st.subs[i].saves = 1
        /\ st.subs[i].ended # "no" => st.subs[i].saves = 1

\* C6, amended: every submission of a valid color issues exactly one
\* setColor of that color; exactly one commit is issued once that request
\* has completed successfully, and none before that nor when the request is
\* rejected.
C6_SetThenCommitOnSuccess ==
    \A i \in 1..Len(st.subs) :
        /\ st.subs[i].sets = 1
        /\ ~st.subs[i].setDone => st.subs[i].saves = 0
        /\ st.subs[i].setDone => st.subs[i].saves = 1
        /\ st.subs[i].ended \in {"saved", "save-rejected"}
           => st.subs[i].saves = 1
        /\ st.subs[i].ended = "set-rejected" => st.subs[i].saves = 0

\* "#1a2b3c" was submitted, set and committed
C6_Witness ==
    /\ Len(st.subs) > 0
    /\ st.subs[1].color = ColorNavy
    /\ st.subs[1].ended = "saved"
    /\ store.color = ColorNavy
    /\ saved.color = ColorNavy

\* the reticle a surface shows or keeps
ReticleOf(s) ==
    IF s \in Overlays THEN ov[s].currentReticle ELSE st.reticleActive

\* C10: a surface that handles the reticle-changed notification of a
\* selection made on the settings surface has the notified reticle
\* afterwards.
C10_ReticleReconciled ==
    [][\A s \in open :
          Handles(s, "reticle-changed")
          => ReticleOf(s)' = Head(inbox[s]["reticle-changed"])]_vars
\* ------------------------------------------------------------------------
\* The settings surface alone: values moved on the sliders and the picker,
\* colors submitted as text, the store serving or failing each request
\* ------------------------------------------------------------------------
NextOptimistic ==
    \/ ControlInput
    \/ TypeColorText
    \/ ColorInputChange
    \/ TextSetArrives
    \/ TextSaveArrives
    \/ DetachedSettles
    \/ DeliverSettings
    \/ ServeSet
    \/ ServeSave
    \/ ServeFail

SpecOptimistic == InitPanel /\ [][NextOptimistic]_vars

\* the fields the settings surface keeps and shows
SettingsCache(s) ==
    <<s.sizeSlider, s.sizeValue, s.opacitySlider, s.opacityValue,
      s.colorPicker, s.colorInput, s.reticleActive, s.followChecked,
      s.hideAdsChecked, s.autostartChecked, s.grid>>

\* C11: the step in which the settings surface learns that a set request
\* was rejected leaves every local field as it is, the optimistic value of
\* the gesture included, and issues no request: nothing is retried.
C11_FailedSetKeepsCache ==
    [][\A cmd \in NotifiedSets : \A r \in InFlight(cmd) :
          (/\ r.from = "settings"
           /\ r.phase = "err"
           /\ calls'[cmd] = calls[cmd] (-) SetToBag({r}))
          => /\ SettingsCache(st') = SettingsCache(st)
             /\ sent' = sent
             /\ \A c \in Cmds \ {cmd} : calls'[c] = calls[c]]_vars

\* setSize(40) was rejected and the rejection logged: the slider still shows
\* 40 while the store holds 20, and no set_size is in flight
C11_Witness ==
    /\ st.errors = 1
    /\ st.sizeSlider = 40
    /\ store.size = 20
    /\ sent["settings"]["set_size"] = 1
    /\ InFlight("set_size") = {}
\* the requests that change the store
MutationCmds ==
    NotifiedSets \cup {"set_follow_mouse", "set_hide_on_ads", "toggle_lock",
                       "save_preferences", "reset_preferences"}

\* what a surface has reported so far: console.error calls and toasts
Reports(o) == o.errors + Len(o.toasts)

\* C12: the step in which a surface learns that one of its mutation
\* requests was rejected reports it, by a log entry or by a toast.
C12_FailuresReported ==
    [][\A cmd \in MutationCmds : \A r \in InFlight(cmd) :
          (/\ r.phase = "err"
           /\ calls'[cmd] = calls[cmd] (-) SetToBag({r}))
          => IF r.from = "settings"
             THEN Reports(st') > Reports(st)
             ELSE Reports(ov'[r.from]) > Reports(ov[r.from])]_vars
\* ------------------------------------------------------------------------
\* Reset on the settings surface
\* ------------------------------------------------------------------------
InitReset == InitCommon /\ panelBound /\ open = {"settings"}

NextReset ==
    \/ ResetClick
    \/ ResetArrives
    \/ SettingsHydrateArrives
    \/ GridListArrives
    \/ GridCurrentArrives
    \/ DeliverSettings
    \/ ServeReset
    \/ ServeReadInOrder
    \/ ServeFailInOrder

SpecReset == InitReset /\ [][NextReset]_vars
\* the settings surface shows the values g of a batch of reads
RendersSettings(s, g) ==
    /\ s.sizeSlider = g.size[1]
    /\ s.sizeValue = <<g.size[1], "px">>
    /\ s.opacitySlider = RoundPercent(g.opacity[1])
    /\ s.colorPicker = g.color[1]
    /\ s.colorInput = g.color[1]
    /\ s.reticleActive = g.reticle[1]
    /\ s.followChecked = g.followMouse[1]
    /\ s.hideAdsChecked = g.hideAds[1]

\* the step consumes the response of resetPreferences, settled as `phase`
ConsumesReset(phase) ==
    \E r \in InFlight("reset_preferences") :
        /\ r.from = "settings"
        /\ r.phase = phase
        /\ calls'["reset_preferences"] =
               calls["reset_preferences"] (-) SetToBag({r})

\* the step issues a get read of the settings surface
IssuesRead ==
    \E cmd \in SettingsReadCmds \cup {"get_crosshair_list", "get_crosshair"} :
        sent'["settings"][cmd] > sent["settings"][cmd]

\* C13: the settings surface issues get reads only in the step in which
\* resetPreferences has completed successfully, or later in that flow; the
\* step that applies the batch leaves the fields as the reads returned
\* them; the step in which resetPreferences is found rejected issues no
\* request and leaves every field as it is.
C13_ResetOrdering ==
    [][/\ IssuesRead
          => \/ ConsumesReset("ok")
             \/ \E f \in SettingsFields : Batch(f, "reset") # {}
             \/ \E r \in InFlight("get_crosshair_list") : r.then = "reset"
       /\ ConsumesReset("err")
          => /\ sent' = sent
             /\ SettingsCache(st') = SettingsCache(st)
       /\ st'.loads # st.loads
          => RendersSettings(st', st'.got[1])]_vars

\* a reset has gone through: defaults in the store, the batch applied, the
\* grid loaded, the toast raised
C13_Witness ==
    /\ st.lastEvent = "reset"
    /\ st.loads = 1
    /\ st.toasts = <<"success">>
    /\ st.sizeSlider = Defaults.size
    /\ st.grid # <<>>
    /\ store = Defaults
    /\ ~Resetting
\* the reads of the fields an overlay renders: crosshair, size, opacity,
\* color, locked, reticle
OverlayFieldReads ==
    {"get_crosshair", "get_size", "get_opacity", "get_color", "is_locked",
     "get_reticle"}

\* C14: an overlay whose hydration is through has read every field it
\* renders exactly once, and the crosshair catalog exactly once.
C14_HydratedOnce ==
    \A s \in Overlays \cap open :
        ov[s].hydration = "done"
        => /\ \A cmd \in OverlayFieldReads : sent[s][cmd] = 1
           /\ sent[s]["get_crosshair_list"] = 1
\* C15: an overlay whose five initial reads were all answered, its
\* loadInitialState ended, and which has handled no lock-changed and no
\* sync-settings notification, has the lock state that getLocked returned.
C15_InitialLock ==
    \A s \in Overlays \cap open :
        (/\ ov[s].hydration \notin {"none", "reading"}
         /\ \A f \in HydrationFields : ov[s].got[f] # None
         /\ recv[s]["lock-changed"] = None
         /\ recv[s]["sync-settings"] = None)
        => /\ ov[s].isLocked = ov[s].got.locked[1]
           /\ LockView(ov[s]) = LockView(updateLockState(ov[s],
                                                         ov[s].got.locked[1]))

\* ------------------------------------------------------------------------
\* Duplicate: the settings surface asks for a shadow overlay
\* ------------------------------------------------------------------------
\* btnDuplicate up to its await; the model keeps one shadow surface
DuplicateClick ==
    /\ events < MaxEvents
    /\ events' = events + 1
    /\ "settings" \in open
    /\ "shadow" \notin open
    /\ InFlight("create_shadow_window") = {}
    /\ calls' = Issue(calls, "create_shadow_window",
                      Call("settings", "duplicate", None, <<>>, "none"))
    /\ sent' = Count(sent, "settings", "create_shadow_window")
    /\ st' = [st EXCEPT !.lastEvent = "duplicate"]
    /\ UNCHANGED <<panelBound, store, saved, inbox, recv, ov, open, catalog,
                   winPos, ext>>

\* btnDuplicate after its await: a toast either way
DuplicateArrives ==
    /\ \E r \in InFlight("create_shadow_window") :
          /\ r.k = "duplicate"
          /\ r.phase \in {"ok", "err"}
          /\ calls' = Take(calls, "create_shadow_window", r)
          /\ st' = showToast(st, IF r.phase = "ok" THEN "success"
                                 ELSE "error")
    /\ UNCHANGED <<panelBound, store, saved, inbox, recv, sent, ov, open,
                   catalog, winPos, ext, events>>

\* the window owner creates the shadow window, which loads the overlay page
\* (main.ts), and sends it the aggregate on the bulk topic
ServeCreateShadow ==
    /\ \E r \in InFlight("create_shadow_window") :
          /\ r.phase = "sent"
          /\ "shadow" \notin open
          /\ open' = open \cup {"shadow"}
          /\ inbox' = [inbox EXCEPT !["shadow"]["sync-settings"] =
                           Append(@, store)]
          /\ calls' = Replace(calls, "create_shadow_window", r,
                              Answered(r, "shadow"))
    /\ UNCHANGED <<panelBound, store, saved, recv, sent, ov, st, catalog,
                   winPos, ext, events>>

InitDuplicate == InitCommon /\ open = {"settings"}

NextDuplicate ==
    \/ DuplicateClick
    \/ DuplicateArrives
    \/ ServeCreateShadow
    \/ HydrateStart
    \/ HydrateArrives
    \/ GridListArrives
    \/ GridCurrentArrives
    \/ DeliverOverlay
    \/ ServeRead
    \/ ServeFail

SpecDuplicate == InitDuplicate /\ [][NextDuplicate]_vars

\* C16: a shadow surface created by Duplicate takes its initial cache from
\* the sync-settings notification and issues no per-field get read
C16_ShadowHydratesBySync ==
    "shadow" \in open =>
        \A f \in HydrationFields : sent["shadow"][HydrationReads[f]] = 0

\* ------------------------------------------------------------------------
\* Opening the settings surface from an overlay (openSettingsWindow)
\* ------------------------------------------------------------------------
\* who calls openSettingsWindow: the click listener of the settings button,
\* the open-settings listener
OpenVia == {"button", "event"}

\* what WebviewWindow.getByLabel("settings") hands to `existing`: the window
\* or null where the call is synchronous, a Promise where it is asynchronous
\* (the call is not awaited)
getByLabel == (IF "settings" \in open THEN {"window"} ELSE {"null"})
                  \cup {"promise"}

\* openSettingsWindow() rejects: the button's listener logs the rejection
\* (.catch(console.error)), the open-settings listener lets it escape
openSettingsRejected(o, via) ==
    IF via = "button" THEN [o EXCEPT !.errors = @ + 1] ELSE Uncaught(o)

\* a listener calls openSettingsWindow, which runs up to its dynamic import;
\* the settings button cannot be clicked while it is hidden
OpenSettingsRequest ==
    /\ events < MaxEvents
    /\ events' = events + 1
    /\ \E s \in Overlays \cap open : \E via \in OpenVia :
          /\ via = "button" => ~ov[s].settingsButtonHidden
          /\ calls' = Issue(calls, "import",
                            Marked(Call(s, "open_settings", None,
                                        Some(ov[s].isLocked), via),
                                   Some(Len(ov[s].lockSeen))))
          /\ sent' = Count(sent, s, "import")
    /\ UNCHANGED <<panelBound, store, saved, inbox, recv, ov, st, open,
                   catalog, winPos, ext>>

\* the import has settled: getByLabel, then show() of the existing window or
\* the construction of a new one
OpenSettingsImported ==
    /\ \E r \in InFlight("import") :
          /\ r.k = "open_settings"
          /\ r.phase \in {"ok", "err"}
          /\ LET s == r.from
                 taken == Take(calls, "import", r)
             IN  IF r.phase = "err"
                 THEN /\ ov' = [ov EXCEPT ![s] =
                                  openSettingsRejected(@, r.then)]
                      /\ calls' = taken
                      /\ sent' = sent
                 ELSE \E existing \in getByLabel :
                         CASE existing = "window" ->
                                 /\ calls' = Issue(taken, "show",
                                                   Call(s, "shown", None,
                                                        <<>>, r.then))
                                 /\ sent' = Count(sent, s, "show")
                                 /\ ov' = ov
                           [] existing = "null" ->
                                 /\ calls' = Issue(taken,
                                                   "create_webview_window",
                                                   Call(s, "created", None,
                                                        <<>>, r.then))
                                 /\ sent' = Count(sent, s,
                                                  "create_webview_window")
                                 /\ ov' = ov
                           \* existing.show is not a function
                           [] existing = "promise" ->
                                 /\ ov' = [ov EXCEPT ![s] =
                                             openSettingsRejected(@, r.then)]
                                 /\ calls' = taken
                                 /\ sent' = sent
    /\ UNCHANGED <<panelBound, store, saved, inbox, recv, st, open, catalog,
                   winPos, ext, events>>

\* existing.show() has settled: setFocus() is next
OpenSettingsShown ==
    /\ \E r \in InFlight("show") :
          /\ r.k = "shown"
          /\ \/ /\ r.phase = "ok"
                /\ calls' = Issue(Take(calls, "show", r), "set_focus",
                                  Call(r.from, "focused", None, <<>>, r.then))
                /\ sent' = Count(sent, r.from, "set_focus")
                /\ ov' = ov
             \/ /\ r.phase = "err"
                /\ calls' = Take(calls, "show", r)
                /\ sent' = sent
                /\ ov' = [ov EXCEPT ![r.from] =
                            openSettingsRejected(@, r.then)]
    /\ UNCHANGED <<panelBound, store, saved, inbox, recv, st, open, catalog,
                   winPos, ext, events>>

\* existing.setFocus() has settled: openSettingsWindow returns
OpenSettingsFocused ==
    /\ \E r \in InFlight("set_focus") :
          /\ r.k = "focused"
          /\ r.phase \in {"ok", "err"}
          /\ calls' = Take(calls, "set_focus", r)
          /\ ov' = [ov EXCEPT ![r.from] =
                      IF r.phase = "ok" THEN @
                      ELSE openSettingsRejected(@, r.then)]
    /\ UNCHANGED <<panelBound, store, saved, inbox, recv, sent, st, open,
                   catalog, winPos, ext, events>>

\* tauri://created or tauri://error of the new window: the first is logged
\* with console.log, the second with console.error
OpenSettingsCreated ==
    /\ \E r \in InFlight("create_webview_window") :
          /\ r.k = "created"
          /\ r.phase \in {"ok", "err"}
          /\ calls' = Take(calls, "create_webview_window", r)
          /\ ov' = [ov EXCEPT ![r.from].errors =
                      IF r.phase = "ok" THEN @ ELSE @ + 1]
    /\ UNCHANGED <<panelBound, store, saved, inbox, recv, sent, st, open,
                   catalog, winPos, ext, events>>

\* the module loader resolves the import
ServeImport ==
    /\ \E r \in InFlight("import") :
          /\ r.phase = "sent"
          /\ calls' = Replace(calls, "import", r, Done(r))
    /\ UNCHANGED <<panelBound, store, saved, inbox, recv, sent, ov, st, open,
                   catalog, winPos, ext, events>>

\* the window owner shows or focuses the settings window
ServeShow ==
    /\ \E cmd \in {"show", "set_focus"} : \E r \in InFlight(cmd) :
          /\ r.phase = "sent"
          /\ "settings" \in open
          /\ calls' = Replace(calls, cmd, r, Done(r))
    /\ UNCHANGED <<panelBound, store, saved, inbox, recv, sent, ov, st, open,
                   catalog, winPos, ext, events>>

\* the window owner creates the window unless its label is taken
ServeCreateWebview ==
    /\ \E r \in InFlight("create_webview_window") :
          /\ r.phase = "sent"
          /\ IF "settings" \in open
             THEN /\ calls' = Replace(calls, "create_webview_window", r,
                                      Rejected(r))
                  /\ open' = open
             ELSE /\ calls' = Replace(calls, "create_webview_window", r,
                                      Done(r))
                  /\ open' = open \cup {"settings"}
    /\ UNCHANGED <<panelBound, store, saved, inbox, recv, sent, ov, st,
                   catalog, winPos, ext, events>>

InitOpenSettings ==
    /\ InitCommon
    /\ panelBound
    /\ store = Defaults
    /\ open \in {{"primary"}, {"primary", "settings"}}

NextOpenSettings ==
    \/ OpenSettingsRequest
    \/ OpenSettingsImported
    \/ OpenSettingsShown
    \/ OpenSettingsFocused
    \/ OpenSettingsCreated
    \/ ServeImport
    \/ ServeShow
    \/ ServeCreateWebview
    \/ ServeFail
    \/ ExternalToggleLock
    \/ DeliverOverlay
    \/ AnimateTimeout

SpecOpenSettings == InitOpenSettings /\ [][NextOpenSettings]_vars

\* a step of surface s that asks the window owner to show the settings
\* window or to create it
OpensOrFocuses(s) ==
    \/ sent'[s]["show"] # sent[s]["show"]
    \/ sent'[s]["create_webview_window"] # sent[s]["create_webview_window"]

\* C17: an open request handled while the surface is locked is followed by
\* the show or the creation of the settings window only after the surface
\* has gone through an unlock
C17_UnlockBeforeSettings ==
    [][\A r \in InFlight("import") :
          (/\ r.ctx = Some(TRUE)
           /\ calls'["import"] = calls["import"] (-) SetToBag({r})
           /\ OpensOrFocuses(r.from))
          => /\ ~ov[r.from].isLocked
             /\ Len(ov[r.from].lockSeen) > r.mark[1]]_vars

\* C20: an open request handled while the settings surface exists asks the
\* window owner to show it and asks for no new window
C20_FocusExisting ==
    [][\A r \in InFlight("import") :
          (/\ r.phase = "ok"
           /\ calls'["import"] = calls["import"] (-) SetToBag({r})
           /\ "settings" \in open)
          => /\ sent'[r.from]["show"] = sent[r.from]["show"] + 1
             /\ sent'[r.from]["create_webview_window"] =
                    sent[r.from]["create_webview_window"]]_vars

\* ------------------------------------------------------------------------
\* Single-field notifications of changes made elsewhere, handled while the
\* requests of the surface's own gestures are still on their way to the store
\* ------------------------------------------------------------------------
\* one surface at a time: the listeners of main.ts, those of settings.ts
InitGranular ==
    /\ InitCommon
    /\ store = Defaults
    /\ open \in {{"primary"}, {"settings"}}

NextGranular ==
    \/ ControlInput
    \/ ExternalChange
    \/ DeliverOverlay
    \/ DeliverSettings
    \/ AnimateTimeout

SpecGranular == InitGranular /\ [][NextGranular]_vars

Fields == {"crosshair", "size", "opacity", "color", "locked", "reticle",
           "visible", "follow_mouse", "hide_on_ads"}

\* what overlay o holds and shows of field f
OverlayField(o, f) ==
    CASE f = "crosshair" -> <<o.crosshairImgSrc>>
      [] f = "size" -> <<o.sizeCss, o.sizeSlider, o.sizeValue>>
      [] f = "opacity" -> <<o.opacityCss, o.opacitySlider, o.opacityValue>>
      [] f = "color" ->
            <<o.colorCss, o.reticleColor, o.colorPicker, o.colorInput>>
      [] f = "locked" ->
            <<o.isLocked, o.appLocked, o.dragHandleHidden,
              o.lockIndicatorHidden, o.settingsButtonHidden>>
      [] f = "reticle" -> <<o.currentReticle>>
      [] f = "visible" -> <<o.appHidden>>
      [] OTHER -> <<>>

\* what the settings surface holds and shows of field f
SettingsField(s, f) ==
    CASE f = "crosshair" -> <<s.grid>>
      [] f = "size" -> <<s.sizeSlider, s.sizeValue>>
      [] f = "opacity" -> <<s.opacitySlider, s.opacityValue>>
      [] f = "color" -> <<s.colorPicker, s.colorInput>>
      [] f = "reticle" -> <<s.reticleActive>>
      [] f = "follow_mouse" -> <<s.followChecked>>
      [] f = "hide_on_ads" -> <<s.hideAdsChecked>>
      [] OTHER -> <<>>

\* C18: a surface that handles a single-field notification keeps the local
\* state of every other field, an optimistic value included
C18_FieldGranularity ==
    [][\A topic \in FieldTopics :
          /\ \A s \in Overlays \cap open :
                Handles(s, topic)
                => \A f \in Fields \ {FieldOf(topic)} :
                      OverlayField(ov'[s], f) = OverlayField(ov[s], f)
          /\ ("settings" \in open /\ Handles("settings", topic))
                => \A f \in Fields \ {FieldOf(topic)} :
                      SettingsField(st', f) = SettingsField(st, f)]_vars

\* the settings surface shows a size the store has not confirmed and has
\* handled a notification of the color
C18_Witness ==
    /\ st.sizeSlider = 40
    /\ store.size = 20
    /\ recv["settings"]["color-changed"] = Some(ColorNavy)
    /\ recv["settings"]["size-changed"] = None
    /\ st.colorPicker = ColorNavy
    /\ InFlight("set_size") # {}

\* ------------------------------------------------------------------------
\* Gestures on the hydrated settings surface: crosshair selection, sliders,
\* picker and reticle buttons
\* ------------------------------------------------------------------------
\* what the seven reads of loadInitialState return from a store that holds
\* the defaults
DefaultReads ==
    [size |-> Some(Defaults.size), opacity |-> Some(Defaults.opacity),
     color |-> Some(Defaults.color), reticle |-> Some(Defaults.reticle),
     followMouse |-> Some(Defaults.follow_mouse),
     hideAds |-> Some(Defaults.hide_on_ads),
     autostartEnabled |-> Some(FALSE)]

\* the settings surface once init() is through: controls set, grid filled
SettingsHydrated ==
    afterLoadSettings(
        fillGridSettings(
            [applyInitialStateSettings(SettingsInit, DefaultReads) EXCEPT
                !.got = Some(DefaultReads), !.loads = 1,
                !.hydration = "grid"],
            Catalog, Defaults.crosshair),
        "init")

\* the items of the grid show `filename` as the active one
setActive(grid, filename) ==
    [i \in DOMAIN grid |->
        [grid[i] EXCEPT !.active = (grid[i].crosshair = filename)]]

\* click on an item of the grid, up to the first await
CrosshairClick ==
    /\ events < MaxEvents
    /\ events' = events + 1
    /\ "settings" \in open
    /\ st.gesture = None
    /\ \E i \in DOMAIN st.grid :
          /\ calls' = Issue(calls, "set_crosshair",
                            Call("settings", "select_set",
                                 Some(st.grid[i].crosshair), <<>>, "none"))
          /\ sent' = Count(sent, "settings", "set_crosshair")
    /\ st' = [st EXCEPT !.lastEvent = "select"]
    /\ UNCHANGED <<panelBound, store, saved, inbox, recv, ov, open, catalog,
                   winPos, ext>>

\* setCrosshair has settled: the commit is next; a rejection escapes the
\* listener
CrosshairSetArrives ==
    /\ \E r \in InFlight("set_crosshair") :
          /\ r.k = "select_set"
          /\ \/ /\ r.phase = "ok"
                /\ calls' = Issue(Take(calls, "set_crosshair", r),
                                  "save_preferences",
                                  Call("settings", "select_save", r.val,
                                       <<>>, "none"))
                /\ sent' = Count(sent, "settings", "save_preferences")
                /\ st' = st
             \/ /\ r.phase = "err"
                /\ calls' = Take(calls, "set_crosshair", r)
                /\ sent' = sent
                /\ st' = Uncaught(st)
    /\ UNCHANGED <<panelBound, store, saved, inbox, recv, ov, open, catalog,
                   winPos, ext, events>>

\* savePreferences has settled: the active item is marked, a toast raised
CrosshairSaveArrives ==
    /\ \E r \in InFlight("save_preferences") :
          /\ r.k = "select_save"
          /\ r.phase \in {"ok", "err"}
          /\ calls' = Take(calls, "save_preferences", r)
          /\ st' = IF r.phase = "ok"
                   THEN showToast([st EXCEPT
                                     !.grid = setActive(@, r.val[1])],
                                  "success")
                   ELSE Uncaught(st)
    /\ UNCHANGED <<panelBound, store, saved, inbox, recv, sent, ov, open,
                   catalog, winPos, ext, events>>

InitSelect ==
    /\ InitShared
    /\ panelBound
    /\ store = Defaults
    /\ open = {"settings"}
    /\ st = SettingsHydrated

NextSelect ==
    \/ CrosshairClick
    \/ CrosshairSetArrives
    \/ CrosshairSaveArrives
    \/ ControlInput
    \/ ReticleClick
    \/ DetachedSettles
    \/ ServeSet
    \/ ServeSave
    \/ ServeFail

SpecSelect == InitSelect /\ [][NextSelect]_vars

\* the settings surface shows v as the value of the field cmd sets
SettingsShows(s, cmd, v) ==
    CASE cmd = "set_size" -> s.sizeSlider = v
      [] cmd = "set_opacity" -> s.opacitySlider = RoundPercent(v)
      [] cmd = "set_color" -> s.colorPicker = v
      [] cmd = "set_reticle" -> s.reticleActive = v
      [] cmd = "set_crosshair" -> s.grid = setActive(s.grid, v)

\* C19: when a gesture issues the request that sets a field, the surface
\* already shows the new value, and a step of a gesture still in progress
\* issues no commit
C19_OptimisticOrdering ==
    [][/\ \A cmd \in NotifiedSets : \A r \in BagToSet(calls'[cmd]) :
             (/\ r.from = "settings"
              /\ r.phase = "sent"
              /\ CopiesIn(r, calls'[cmd]) > CopiesIn(r, calls[cmd]))
             => SettingsShows(st', cmd, r.val[1])
       /\ (events' # events /\ st'.gesture # None)
             => sent'["settings"]["save_preferences"] =
                    sent["settings"]["save_preferences"]]_vars

\* C21: handling visibility-changed changes the visibility of the surface
\* and nothing of its lock state, handling lock-changed changes nothing of
\* its visibility
C21_VisibleLockedIndependent ==
    [][\A s \in Overlays \cap open :
          /\ Handles(s, "visibility-changed")
                => /\ LockView(ov'[s]) = LockView(ov[s])
                   /\ ov'[s].animate = ov[s].animate
                   /\ ov'[s].animTimers = ov[s].animTimers
                   /\ ov'[s].appHidden =
                          ~Head(inbox[s]["visibility-changed"])
          /\ Handles(s, "lock-changed")
                => ov'[s].appHidden = ov[s].appHidden]_vars

\* a locked surface was hidden and is still locked
C21_Witness ==
    /\ ov["primary"].appHidden
    /\ ov["primary"].isLocked
    /\ ov["primary"].dragHandleHidden
    /\ recv["primary"]["lock-changed"] = Some(TRUE)
    /\ recv["primary"]["visibility-changed"] = Some(FALSE)
    /\ inbox["primary"]["lock-changed"] = <<>>
    /\ inbox["primary"]["visibility-changed"] = <<>>

\* every payload a topic can carry
Payloads(topic) ==
    CASE topic = "lock-changed" -> BOOLEAN
      [] topic = "visibility-changed" -> BOOLEAN
      [] OTHER -> ValuesOf(topic)

\* handling (topic, v) a second time changes nothing of any field
HandledTwice(topic, v) ==
    /\ \A s \in Overlays \cap open :
          LET once == listenOverlay(ov[s], topic, v)
              twice == listenOverlay(once, topic, v)
          IN  \A f \in Fields : OverlayField(twice, f) = OverlayField(once, f)
    /\ "settings" \in open =>
          LET once == listenSettings(st, topic, v)
              twice == listenSettings(once, topic, v)
          IN  \A f \in Fields :
                 SettingsField(twice, f) = SettingsField(once, f)

\* the topics main.ts registers a listener for
OverlayListens == FieldTopics \ {"reticle-changed"}

DefaultImage == <<"/crosshairs/", "crosshair-default.png">>

\* C23: a step in which an overlay replaces its image without having handled
\* a notification or a response (the image could not be loaded) puts the
\* default image in place, changes nothing else of the surface, issues no
\* request and leaves the store and what it persisted as they are
C23_RenderTimeFallback ==
    [][\A s \in Overlays \cap open :
          (/\ ov'[s].crosshairImgSrc # ov[s].crosshairImgSrc
           /\ inbox' = inbox
           /\ \A cmd \in Cmds : \A r \in InFlight(cmd) :
                 r.from = s => r \in BagToSet(calls'[cmd]))
          => /\ ov[s].crosshairImgSrc[2] \notin Loadable
             /\ ov' = [ov EXCEPT ![s].crosshairImgSrc = DefaultImage]
             /\ calls' = calls
             /\ sent' = sent
             /\ store' = store
             /\ saved' = saved]_vars

\* the store holds a crosshair that cannot be loaded, the surface shows the
\* default image
C23_Witness ==
    /\ store.crosshair = "missing.png"
    /\ saved.crosshair = "dot.png"
    /\ recv["primary"]["crosshair-changed"] = Some("missing.png")
    /\ inbox["primary"]["crosshair-changed"] = <<>>
    /\ ov["primary"].crosshairImgSrc = DefaultImage
    /\ \A cmd \in {"set_crosshair", "save_preferences"} :
          sent["primary"][cmd] = 0

\* C24: once the primary surface has applied a lock state, the drag handle
\* and the settings button are hidden, the lock indicator is shown and the
\* app carries the marker `locked` exactly when isLocked holds
C24_LockAffordances ==
    ("primary" \in open /\ recv["primary"]["lock-changed"] # None)
    => LET o == ov["primary"]
       IN  /\ o.dragHandleHidden = o.isLocked
           /\ o.settingsButtonHidden = o.isLocked
           /\ o.lockIndicatorHidden = ~o.isLocked
           /\ o.appLocked = o.isLocked

\* the primary surface has handled a lock and a bulk notification: it is
\* locked, its handle and its button are hidden, its indicator is shown
C24_Witness ==
    /\ recv["primary"]["lock-changed"] = Some(TRUE)
    /\ recv["primary"]["sync-settings"] # None
    /\ Quiet("primary")
    /\ ov["primary"].isLocked
    /\ ov["primary"].dragHandleHidden
    /\ ov["primary"].settingsButtonHidden
    /\ ~ov["primary"].lockIndicatorHidden

\* ------------------------------------------------------------------------
\* The lock indicator's animation: lock changes and bulk notifications on
\* the primary surface; a timer that was set fires
\* ------------------------------------------------------------------------
InitAck == InitCommon /\ open = {"primary"}

NextAck ==
    \/ ExternalToggleLock
    \/ ExternalSync
    \/ DeliverOverlay
    \/ AnimateTimeout

SpecAck == InitAck /\ [][NextAck]_vars /\ WF_vars(AnimateTimeout)

\* C25: handling lock-changed true sets the animation class of the lock
\* indicator, handling lock-changed false leaves the class as it is, and a
\* class that was set is removed in the end
C25_TransientAck ==
    /\ [][\A s \in Overlays \cap open :
             Handles(s, "lock-changed")
             => IF Head(inbox[s]["lock-changed"])
                THEN ov'[s].animate /\ ov'[s].animTimers = ov[s].animTimers + 1
                ELSE /\ ov'[s].animate = ov[s].animate
                     /\ ov'[s].animTimers = ov[s].animTimers]_vars
    /\ \A s \in Overlays : ov[s].animate ~> ~ov[s].animate

\* the surface was locked twice within the interval: the first timer has
\* removed the class, the second is still to fire
C25_Witness ==
    /\ ov["primary"].isLocked
    /\ ~ov["primary"].animate
    /\ ov["primary"].animTimers = 1
    /\ recv["primary"]["lock-changed"] = Some(TRUE)

\* ------------------------------------------------------------------------
\* Drag gestures on the unlocked primary surface, the window owner serving
\* or failing each request
\* ------------------------------------------------------------------------
NextPointer ==
    \/ MouseDown
    \/ DragPositionArrives
    \/ MouseMove
    \/ MouseUp
    \/ DetachedSettles
    \/ ServeRead
    \/ ServeSave
    \/ ServeSetPosition
    \/ ServeFail

SpecPointer == InitDrag /\ [][NextPointer]_vars

\* C26: the step that ends a drag (mouseup while dragging) issues one
\* commit, and no other step of the surface issues a commit
C26_OneCommitPerDrag ==
    [][\A s \in Overlays \cap open :
          LET saves == sent[s]["save_preferences"]
              savesAfter == sent'[s]["save_preferences"]
          IN  /\ (ov[s].isDragging /\ ~ov'[s].isDragging)
                    => savesAfter = saves + 1
              /\ savesAfter # saves
                    => (ov[s].isDragging /\ ~ov'[s].isDragging
                        /\ events' = events + 1)]_vars

\* a drag with one mousemove has ended: one position request, one commit
C26_Witness ==
    /\ events = 3
    /\ ~ov["primary"].isDragging
    /\ sent["primary"]["outer_position"] = 1
    /\ sent["primary"]["set_position"] = 1
    /\ sent["primary"]["save_preferences"] = 1

\* ------------------------------------------------------------------------
\* Context menu and Escape key of an overlay
\* ------------------------------------------------------------------------
\* contextmenu listener: settingsPanel is not declared in main.ts, and where
\* it does not resolve the toggle throws a ReferenceError
\* (contextMenus counts the right-clicks handled)
contextMenu(o) ==
    LET n == [o EXCEPT !.contextMenus = @ + 1]
    IN  IF o.isLocked THEN n
        ELSE IF panelBound
        THEN [n EXCEPT !.settingsPanelHidden = ~@]
        ELSE Uncaught(n)

\* keydown listener, key Escape: the panel and the modals are hidden, the
\* panel first
escapeKey(o) ==
    IF panelBound
    THEN [o EXCEPT !.settingsPanelHidden = TRUE, !.chooserModalHidden = TRUE]
    ELSE Uncaught(o)

ContextMenu ==
    /\ events < MaxEvents
    /\ events' = events + 1
    /\ \E s \in Overlays \cap open : ov' = [ov EXCEPT ![s] = contextMenu(@)]
    /\ UNCHANGED <<panelBound, store, saved, inbox, recv, calls, sent, st,
                   open, catalog, winPos, ext>>

EscapeKey ==
    /\ events < MaxEvents
    /\ events' = events + 1
    /\ \E s \in Overlays \cap open : ov' = [ov EXCEPT ![s] = escapeKey(@)]
    /\ UNCHANGED <<panelBound, store, saved, inbox, recv, calls, sent, st,
                   open, catalog, winPos, ext>>

InitMenu == InitCommon /\ open = {"primary"}

NextMenu ==
    \/ ContextMenu
    \/ EscapeKey
    \/ ExternalToggleLock
    \/ DeliverOverlay
    \/ AnimateTimeout

SpecMenu == InitMenu /\ [][NextMenu]_vars

\* C27: a right-click handled while the surface is locked leaves the
\* settings panel as it is, one handled while it is unlocked toggles it
C27_ContextMenuGated ==
    [][\A s \in Overlays \cap open :
          ov'[s].contextMenus # ov[s].contextMenus
          => ov'[s].settingsPanelHidden =
                 IF ov[s].isLocked THEN ov[s].settingsPanelHidden
                 ELSE ~ov[s].settingsPanelHidden]_vars

\* ------------------------------------------------------------------------
\* The opacity slider in percent: JavaScript numbers are IEEE 754 doubles,
\* held here as [m, k] for the value m / 2^k with m a whole number of at
\* most 53 bits, written in three limbs to the base 2^20 (lowest first)
\* ------------------------------------------------------------------------
BigMulSmall(x, n) ==
    LET t0 == x[1] * n
        t1 == x[2] * n + t0 \div 1048576
        t2 == x[3] * n + t1 \div 1048576
    IN  <<t0 % 1048576, t1 % 1048576, t2>>

BigDivSmall(x, n) ==
    LET t1 == (x[3] % n) * 1048576 + x[2]
        t0 == (t1 % n) * 1048576 + x[1]
    IN  [q |-> <<t0 \div n, t1 \div n, x[3] \div n>>, r |-> t0 % n]

BigAdd(x, y) ==
    LET t0 == x[1] + y[1]
        t1 == x[2] + y[2] + t0 \div 1048576
    IN  <<t0 % 1048576, t1 % 1048576, x[3] + y[3] + t1 \div 1048576>>

BigLess(x, y) ==
    \/ x[3] < y[3]
    \/ x[3] = y[3] /\ x[2] < y[2]
    \/ x[3] = y[3] /\ x[2] = y[2] /\ x[1] < y[1]

\* p * 2^k for a whole number p < 128 and k <= 60
ShiftLeft(p, k) ==
    LET v == p * 2^(k % 20)
    IN  CASE k \div 20 = 0 -> <<v % 1048576, v \div 1048576, 0>>
          [] k \div 20 = 1 -> <<0, v % 1048576, v \div 1048576>>
          [] OTHER -> <<0, 0, v * 1048576^(k \div 20 - 2)>>

\* x \div 2^k
ShiftRight(x, k) ==
    LET y == CASE k \div 20 = 0 -> x
               [] k \div 20 = 1 -> <<x[2] % 1048576, x[3] % 1048576,
                                     x[3] \div 1048576>>
               [] k \div 20 = 2 -> <<x[3] % 1048576, x[3] \div 1048576, 0>>
               [] OTHER -> <<0, 0, 0>>
        b == k % 20
    IN  IF b <= 10 THEN BigDivSmall(y, 2^b).q
        ELSE BigDivSmall(BigDivSmall(y, 1024).q, 2^(b - 10)).q

\* p / n for whole numbers 0 <= p < 64 * n, n <= 1024: the nearest double,
\* ties to even (k: the least scale at which the quotient has 53 bits)
divDouble(p, n) ==
    IF p = 0 THEN [m |-> <<0, 0, 0>>, k |-> 0]
    ELSE LET Wide(j) ==
                 ~BigLess(BigDivSmall(ShiftLeft(p, j), n).q, ShiftLeft(1, 52))
             k == CHOOSE j \in 46..60 :
                     Wide(j) /\ \A i \in 46..(j - 1) : ~Wide(i)
             d == BigDivSmall(ShiftLeft(p, k), n)
             up == \/ 2 * d.r > n
                   \/ 2 * d.r = n /\ d.q[1] % 2 = 1
         IN  [m |-> IF up THEN BigAdd(d.q, <<1, 0, 0>>) ELSE d.q, k |-> k]

\* x * n for a double x and a whole number n <= 128: the exact product
\* rounded to 53 bits, ties to even (s: the bits the product has too many)
mulDouble(x, n) ==
    LET product == BigMulSmall(x.m, n)
        Fits(j) == BigLess(ShiftRight(product, j), ShiftLeft(1, 53))
        s == CHOOSE j \in 0..8 : Fits(j) /\ \A i \in 0..(j - 1) : ~Fits(i)
        d == BigDivSmall(product, 2^s)
        up == \/ 2 * d.r > 2^s
              \/ 2 * d.r = 2^s /\ d.q[1] % 2 = 1
    IN  [m |-> IF up THEN BigAdd(d.q, <<1, 0, 0>>) ELSE d.q, k |-> x.k - s]

\* the whole part of a double between 0 and 2^20
MathTrunc(x) == ShiftRight(x.m, x.k)[1]

\* Math.round: floor(x + 1/2), for a double between 0 and 2^7
MathRound(x) ==
    IF x.k = 0 THEN x.m[1]
    ELSE ShiftRight(BigAdd(BigMulSmall(x.m, 2), ShiftLeft(1, x.k)),
                    x.k + 1)[1]

\* updateOpacityUI of settings.ts
updateOpacityUIDouble(s, opacity) ==
    [s EXCEPT !.opacitySlider = MathRound(mulDouble(opacity, 100)),
              !.opacityValue = <<MathRound(mulDouble(opacity, 100)), "%">>]

\* updateOpacity of main.ts
updateOpacityDouble(o, opacity) ==
    IF panelBound
    THEN [o EXCEPT !.opacityCss = opacity,
                   !.opacitySlider = MathRound(mulDouble(opacity, 100)),
                   !.opacityValue =
                       <<MathRound(mulDouble(opacity, 100)), "%">>]
    ELSE Uncaught([o EXCEPT !.opacityCss = opacity])

\* the positions of the opacity slider
SliderPercents == 0..100

\* the slider movements of one behaviour
MaxSlides == 1

\* the opacity the "input" handler computes at each position
PercentOpacity == [p \in SliderPercents |-> divDouble(p, 100)]

\* "input" of the opacity slider at position p; in this specification the
\* slider is moved again once the request before has been served and its
\* notification handled (ctx: the position)
OpacityInput ==
    /\ events < MaxEvents
    /\ events' = events + 1
    /\ "settings" \in open
    /\ sent["settings"]["set_opacity"] < MaxSlides
    /\ InFlight("set_opacity") = {}
    /\ \A s \in open : inbox[s]["opacity-changed"] = <<>>
    /\ \E p \in SliderPercents :
          LET opacity == PercentOpacity[p]
          IN  /\ st' = [updateOpacityUIDouble(st, opacity) EXCEPT
                          !.lastEvent = "input"]
              /\ calls' = Issue(calls, "set_opacity",
                                Call("settings", "log", Some(opacity),
                                     Some(p), "none"))
              /\ sent' = Count(sent, "settings", "set_opacity")
    /\ UNCHANGED <<panelBound, store, saved, inbox, recv, ov, open, catalog,
                   winPos, ext>>

\* the store commits the opacity and broadcasts it
ServeSetOpacity ==
    /\ \E r \in InFlight("set_opacity") :
          /\ r.phase = "sent"
          /\ StoreCommit("opacity-changed", r.val[1])
          /\ calls' = Replace(calls, "set_opacity", r, Done(r))
    /\ UNCHANGED <<panelBound, saved, recv, sent, ov, st, open, catalog,
                   winPos, ext, events>>

\* a surface handles opacity-changed
DeliverOpacity ==
    /\ \E s \in open :
          /\ inbox[s]["opacity-changed"] # <<>>
          /\ LET opacity == Head(inbox[s]["opacity-changed"])
             IN  /\ inbox' = Pop(inbox, s, "opacity-changed")
                 /\ recv' = Received(recv, s, "opacity-changed", opacity)
                 /\ IF s = "settings"
                    THEN /\ st' = updateOpacityUIDouble(st, opacity)
                         /\ ov' = ov
                    ELSE /\ ov' = [ov EXCEPT ![s] =
                                     updateOpacityDouble(@, opacity)]
                         /\ st' = st
    /\ UNCHANGED <<panelBound, store, saved, calls, sent, open, catalog,
                   winPos, ext, events>>

InitPercent ==
    InitCommon /\ store = Defaults /\ open = {"primary", "settings"}

NextPercent ==
    \/ OpacityInput
    \/ ServeSetOpacity
    \/ DeliverOpacity
    \/ DetachedSettles

SpecPercent == InitPercent /\ [][NextPercent]_vars

\* C28: the opacity slider moved to position p issues the double nearest to
\* p / 100 and shows p, slider and label; a surface that applies that
\* opacity shows p again
C28_PercentRoundTrip ==
    [][/\ \A r \in BagToSet(calls'["set_opacity"]) :
             (r.phase = "sent" /\ r \notin InFlight("set_opacity"))
             => /\ r.val[1] = divDouble(r.ctx[1], 100)
                /\ st'.opacitySlider = r.ctx[1]
                /\ st'.opacityValue = <<r.ctx[1], "%">>
       /\ \A p \in SliderPercents :
             /\ (Handles("settings", "opacity-changed")
                 /\ Head(inbox["settings"]["opacity-changed"])
                        = PercentOpacity[p])
                   => /\ st'.opacitySlider = p
                      /\ st'.opacityValue = <<p, "%">>
             /\ (Handles("primary", "opacity-changed") /\ panelBound
                 /\ Head(inbox["primary"]["opacity-changed"])
                        = PercentOpacity[p])
                   => /\ ov'["primary"].opacitySlider = p
                      /\ ov'["primary"].opacityValue = <<p, "%">>]_vars

\* the slider was moved to 29: 29 / 100 is a double below 0.29, and both
\* surfaces have applied it and show 29
C28_Witness ==
    /\ panelBound
    /\ recv["settings"]["opacity-changed"] = Some(divDouble(29, 100))
    /\ recv["primary"]["opacity-changed"] = Some(divDouble(29, 100))
    /\ MathTrunc(mulDouble(divDouble(29, 100), 100)) = 28
    /\ st.opacitySlider = 29
    /\ st.opacityValue = <<29, "%">>
    /\ ov["primary"].opacitySlider = 29

\* ------------------------------------------------------------------------
\* Gestures of the settings surface and their commits, the store serving
\* every request, in any order
\* ------------------------------------------------------------------------
InitCommit == InitPanel

NextCommit ==
    \/ ControlInput
    \/ ControlChange
    \/ ReticleClick
    \/ PickerSaveArrives
    \/ DetachedSettles
    \/ ServeSet
    \/ ServeSave

SpecCommit == InitCommit /\ [][NextCommit]_vars

\* no set request and no commit is waiting to be served
AllServed ==
    \A cmd \in NotifiedSets \cup {"save_preferences"} :
       \A r \in InFlight(cmd) : r.phase # "sent"

\* C29: the commit issued at the end of a gesture is processed after the
\* gesture's set requests have taken effect: once every gesture has ended
\* and every request has been served, the persisted aggregate holds the
\* values the gestures set
C29_CommitCoversGesture ==
    (/\ st.gesture = None
     /\ sent["settings"]["save_preferences"] > 0
     /\ AllServed)
    => saved = store

\* ------------------------------------------------------------------------
\* Drags of the primary surface while the settings surface has the window
\* owner move the overlay window
\* ------------------------------------------------------------------------
InitPlace ==
    InitCommon /\ store = Defaults /\ open = {"primary", "settings"}

NextPlace ==
    \/ WindowButtonClick
    \/ WindowRequestArrives
    \/ ServeWindow
    \/ MouseDown
    \/ DragPositionArrives
    \/ MouseMove
    \/ MouseUp
    \/ DetachedSettles
    \/ ServeRead
    \/ ServeSave
    \/ ServeSetPosition

SpecPlace == InitPlace /\ [][NextPlace]_vars

\* C30: every position request of a drag asks for the window position at
\* the start of the drag plus the displacement of the pointer since then
\* (dragOrigin: the position of the window when the mousedown was handled)
C30_DragTargets ==
    [][\A r \in BagToSet(calls'["set_position"]) :
          (/\ r.phase = "sent"
           /\ CopiesIn(r, calls'["set_position"])
                  > CopiesIn(r, calls["set_position"]))
          => \E p \in Pointers :
                r.val[1] = Plus(ov[r.from].dragOrigin,
                                Minus(p, ov[r.from].start))]_vars

\* ------------------------------------------------------------------------
\* The crosshair grid of the hydrated settings surface: clicks on its items
\* and the reloads that crosshair-changed starts, the store serving every
\* request
\* ------------------------------------------------------------------------
InitGrid == InitSelect

NextGrid ==
    \/ CrosshairClick
    \/ CrosshairSetArrives
    \/ CrosshairSaveArrives
    \/ DeliverSettings
    \/ GridListArrives
    \/ GridCurrentArrives
    \/ ServeSet
    \/ ServeSave
    \/ ServeRead

SpecGrid == InitGrid /\ [][NextGrid]_vars

\* no request of the settings surface is on its way or unhandled, and no
\* crosshair-changed notification waits for it
GridQuiet ==
    /\ \A cmd \in Cmds : InFlight(cmd) = {}
    /\ inbox["settings"]["crosshair-changed"] = <<>>

\* C31: once every reload of the grid and every click has run to its end,
\* the grid holds the entries of the catalog, each once and in its order,
\* and marks as active the crosshair the store holds, and no other
C31_GridAfterReloads ==
    GridQuiet
    => /\ [i \in DOMAIN st.grid |-> st.grid[i].crosshair] = catalog
       /\ \A i \in DOMAIN st.grid :
             st.grid[i].active = (st.grid[i].crosshair = store.crosshair)

\* ------------------------------------------------------------------------
\* Import of a crosshair file on the settings surface (btnImport)
\* ------------------------------------------------------------------------
\* the file the user can pick in the dialog, the identifier the window
\* owner gives it
PickedPath == "/pictures/new.png"
ImportedName == "new.png"

\* catch block of the btnImport listener
importFailed(s) == showToast([s EXCEPT !.errors = @ + 1], "error")

\* click on btnImport, up to the first await: the file dialog is opened
ImportClick ==
    /\ events < MaxEvents
    /\ events' = events + 1
    /\ "settings" \in open
    /\ calls' = Issue(calls, "open_dialog",
                      Call("settings", "import_dialog", None, <<>>, "none"))
    /\ sent' = Count(sent, "settings", "open_dialog")
    /\ st' = [st EXCEPT !.lastEvent = "import"]
    /\ UNCHANGED <<panelBound, store, saved, inbox, recv, ov, open, catalog,
                   winPos, ext>>

\* the user picks the file or cancels the dialog (null)
ServeDialog ==
    /\ \E r \in InFlight("open_dialog") : \E selected \in {None, Some(PickedPath)} :
          /\ r.phase = "sent"
          /\ calls' = Replace(calls, "open_dialog", r, Answered(r, selected))
    /\ UNCHANGED <<panelBound, store, saved, inbox, recv, sent, ov, st, open,
                   catalog, winPos, ext, events>>

\* import_crosshair copies the file into the catalog and returns its
\* identifier
ServeImportCrosshair ==
    /\ \E r \in InFlight("import_crosshair") :
          /\ r.phase = "sent"
          /\ catalog' = IF \E i \in DOMAIN catalog : catalog[i] = ImportedName
                        THEN catalog
                        ELSE Append(catalog, ImportedName)
          /\ calls' = Replace(calls, "import_crosshair", r,
                              Answered(r, ImportedName))
    /\ UNCHANGED <<panelBound, store, saved, inbox, recv, sent, ov, st, open,
                   winPos, ext, events>>

\* openDialog has settled: with a file selected importCrosshair is called
ImportDialogArrives ==
    /\ \E r \in InFlight("open_dialog") :
          /\ r.k = "import_dialog"
          /\ r.phase \in {"ok", "err"}
          /\ LET taken == Take(calls, "open_dialog", r)
             IN  IF r.phase = "err"
                 THEN /\ st' = importFailed(st)
                      /\ calls' = taken
                      /\ sent' = sent
                 ELSE IF r.ret[1] = None
                 THEN /\ st' = st
                      /\ calls' = taken
                      /\ sent' = sent
                 ELSE /\ st' = st
                      /\ calls' = Issue(taken, "import_crosshair",
                                        Call("settings", "import_file",
                                             r.ret[1], <<>>, "none"))
                      /\ sent' = Count(sent, "settings", "import_crosshair")
    /\ UNCHANGED <<panelBound, store, saved, inbox, recv, ov, open, catalog,
                   winPos, ext, events>>

\* importCrosshair has settled: loadCrosshairGrid() is called and reads the
\* catalog (ctx: the identifier returned)
ImportFileArrives ==
    /\ \E r \in InFlight("import_crosshair") :
          /\ r.k = "import_file"
          /\ r.phase \in {"ok", "err"}
          /\ LET taken == Take(calls, "import_crosshair", r)
             IN  IF r.phase = "err"
                 THEN /\ st' = importFailed(st)
                      /\ calls' = taken
                      /\ sent' = sent
                 ELSE /\ st' = st
                      /\ calls' = Issue(taken, "get_crosshair_list",
                                        Call("settings", "import_list", None,
                                             [filename |-> r.ret[1],
                                              crosshairs |-> <<>>], "none"))
                      /\ sent' = Count(sent, "settings", "get_crosshair_list")
    /\ UNCHANGED <<panelBound, store, saved, inbox, recv, ov, open, catalog,
                   winPos, ext, events>>

\* loadCrosshairGrid called by the import: the catalog has arrived and the
\* current crosshair is read; a rejection is caught inside
\* loadCrosshairGrid, which returns normally, and the import goes on with
\* setCrosshair
ImportListArrives ==
    /\ \E r \in InFlight("get_crosshair_list") :
          /\ r.k = "import_list"
          /\ r.phase \in {"ok", "err"}
          /\ LET taken == Take(calls, "get_crosshair_list", r)
             IN  IF r.phase = "ok"
                 THEN /\ st' = st
                      /\ calls' = Issue(taken, "get_crosshair",
                                        Call("settings", "import_cur", None,
                                             [r.ctx EXCEPT
                                                !.crosshairs = r.ret[1]],
                                             "none"))
                      /\ sent' = Count(sent, "settings", "get_crosshair")
                 ELSE /\ st' = gridFailedSettings(st)
                      /\ calls' = Issue(taken, "set_crosshair",
                                        Call("settings", "import_set",
                                             Some(r.ctx.filename), <<>>,
                                             "none"))
                      /\ sent' = Count(sent, "settings", "set_crosshair")
    /\ UNCHANGED <<panelBound, store, saved, inbox, recv, ov, open, catalog,
                   winPos, ext, events>>

\* loadCrosshairGrid called by the import: the current crosshair has
\* arrived and the grid is rebuilt, or the rejection is caught inside; the
\* import goes on with setCrosshair
ImportCurrentArrives ==
    /\ \E r \in InFlight("get_crosshair") :
          /\ r.k = "import_cur"
          /\ r.phase \in {"ok", "err"}
          /\ st' = IF r.phase = "ok"
                   THEN fillGridSettings(st, r.ctx.crosshairs, r.ret[1])
                   ELSE gridFailedSettings(st)
          /\ calls' = Issue(Take(calls, "get_crosshair", r), "set_crosshair",
                            Call("settings", "import_set",
                                 Some(r.ctx.filename), <<>>, "none"))
          /\ sent' = Count(sent, "settings", "set_crosshair")
    /\ UNCHANGED <<panelBound, store, saved, inbox, recv, ov, open, catalog,
                   winPos, ext, events>>

\* setCrosshair has settled: the commit is next
ImportSetArrives ==
    /\ \E r \in InFlight("set_crosshair") :
          /\ r.k = "import_set"
          /\ r.phase \in {"ok", "err"}
          /\ LET taken == Take(calls, "set_crosshair", r)
             IN  IF r.phase = "err"
                 THEN /\ st' = importFailed(st)
                      /\ calls' = taken
                      /\ sent' = sent
                 ELSE /\ st' = st
                      /\ calls' = Issue(taken, "save_preferences",
                                        Call("settings", "import_save", r.val,
                                             <<>>, "none"))
                      /\ sent' = Count(sent, "settings", "save_preferences")
    /\ UNCHANGED <<panelBound, store, saved, inbox, recv, ov, open, catalog,
                   winPos, ext, events>>

\* savePreferences has settled: the toast of the import
ImportSaveArrives ==
    /\ \E r \in InFlight("save_preferences") :
          /\ r.k = "import_save"
          /\ r.phase \in {"ok", "err"}
          /\ calls' = Take(calls, "save_preferences", r)
          /\ st' = IF r.phase = "ok" THEN showToast(st, "success")
                   ELSE importFailed(st)
    /\ UNCHANGED <<panelBound, store, saved, inbox, recv, sent, ov, open,
                   catalog, winPos, ext, events>>

InitImport == InitSelect

NextImport ==
    \/ ImportClick
    \/ ImportDialogArrives
    \/ ImportFileArrives
    \/ ImportListArrives
    \/ ImportCurrentArrives
    \/ ImportSetArrives
    \/ ImportSaveArrives
    \/ ServeDialog
    \/ ServeImportCrosshair
    \/ ServeRead
    \/ ServeSet
    \/ ServeSave
    \/ ServeFail

SpecImport == InitImport /\ [][NextImport]_vars

\* the awaits of the btnImport listener in their order, by continuation
ImportSteps ==
    <<"import_dialog", "import_file", "import_list", "import_cur",
      "import_set", "import_save">>

\* the command the continuation after step k of the import issues
ImportNext(k) ==
    CASE k = "import_dialog" -> "import_crosshair"
      [] k = "import_file" -> "get_crosshair_list"
      [] k = "import_list" -> "get_crosshair"
      [] k = "import_cur" -> "set_crosshair"
      [] k = "import_set" -> "save_preferences"
      [] OTHER -> "none"

\* the settled requests of the import taken up by this step
ImportTaken ==
    {r \in UNION {InFlight(cmd) : cmd \in Cmds} :
        /\ \E i \in DOMAIN ImportSteps : r.k = ImportSteps[i]
        /\ r.phase \in {"ok", "err"}
        /\ \E cmd \in Cmds :
              CopiesIn(r, calls'[cmd]) < CopiesIn(r, calls[cmd])}

\* C32: the import issues importCrosshair, the catalog reload (the list,
\* then the current crosshair), setCrosshair of the returned identifier and
\* the commit, each in the step that takes up the success of the one
\* before; a cancelled dialog is followed by no request; a failed step is
\* followed by no request and by an error notice
C32_ImportSequence ==
    [][/\ \A r \in ImportTaken :
             IF r.phase = "err"
             THEN /\ sent' = sent
                  /\ st'.toasts = Append(st.toasts, "error")
             ELSE IF r.k = "import_dialog" /\ r.ret[1] = None
             THEN sent' = sent /\ st'.toasts = st.toasts
             ELSE IF r.k = "import_save"
             THEN sent' = sent /\ st'.toasts = Append(st.toasts, "success")
             ELSE /\ sent' = Count(sent, "settings", ImportNext(r.k))
                  /\ r.k = "import_cur"
                        => \E q \in BagToSet(calls'["set_crosshair"]) :
                              /\ q.k = "import_set" /\ q.phase = "sent"
                              /\ q.val = Some(ImportedName)
       /\ \A cmd \in Cmds \ {"open_dialog"} :
             sent'["settings"][cmd] > sent["settings"][cmd]
             => \E r \in ImportTaken :
                   r.phase = "ok" /\ ImportNext(r.k) = cmd]_vars
====
